---- MODULE Spec2Model ----
(***************************************************************************)
(* Request executor of the GridDB Web API client (src/core/client.ts):     *)
(* GridDBClient.request with its retry loop, per-attempt abort timer,      *)
(* error classification and response decoding, and containerExists.        *)
(*                                                                         *)
(* One step of the model is the code that runs between two awaits of one   *)
(* call.  The remote service and the network are the environment: they     *)
(* choose whether and how each fetch() and each response.text() settles.   *)
(***************************************************************************)
EXTENDS Integers, Sequences, FiniteSets, TLC

(***************************************************************************)
(* Bounds of the model.                                                    *)
(***************************************************************************)
MaxCalls == 2            \* calls issued on the client in one behaviour
MaxRetryAttempts == 3    \* largest retryAttempts value a configuration gives
MaxKeys == 2             \* keys of a row given to the codec
MaxColumns == 2          \* column descriptors of a schema given to the codec
MaxRows == 4             \* rows given to batchInsert
MaxBatchSize == 3        \* largest batch size given to batchInsert

(***************************************************************************)
(* JavaScript values.                                                      *)
(***************************************************************************)
None == <<>>             \* an optional number that is absent
Some(x) == <<x>>
Undefined == [type |-> "undefined"]
JSString(text) == [type |-> "string", value |-> text]
JSBoolean(b) == [type |-> "boolean", value |-> b]
EmptyObject == [type |-> "object", props |-> <<>>]

\* x || d on an optional number: absent and 0 are falsy.
OrDefault(opt, d) == IF opt = None \/ opt[1] = 0 THEN d ELSE opt[1]

(***************************************************************************)
(* Buffer.from(text).toString('base64') on a sequence of bytes.            *)
(***************************************************************************)
B64Alphabet ==
  << "A","B","C","D","E","F","G","H","I","J","K","L","M","N","O","P",
     "Q","R","S","T","U","V","W","X","Y","Z","a","b","c","d","e","f",
     "g","h","i","j","k","l","m","n","o","p","q","r","s","t","u","v",
     "w","x","y","z","0","1","2","3","4","5","6","7","8","9","+","/" >>

B64Char(sextet) == B64Alphabet[sextet + 1]

RECURSIVE Base64(_)
Base64(bytes) ==
  IF Len(bytes) = 0 THEN <<>>
  ELSE IF Len(bytes) = 1 THEN
    LET n == bytes[1] * 65536
    IN  << B64Char(n \div 262144), B64Char((n \div 4096) % 64), "=", "=" >>
  ELSE IF Len(bytes) = 2 THEN
    LET n == bytes[1] * 65536 + bytes[2] * 256
    IN  << B64Char(n \div 262144), B64Char((n \div 4096) % 64),
           B64Char((n \div 64) % 64), "=" >>
  ELSE
    LET n == bytes[1] * 65536 + bytes[2] * 256 + bytes[3]
    IN  << B64Char(n \div 262144), B64Char((n \div 4096) % 64),
           B64Char((n \div 64) % 64), B64Char(n % 64) >>
        \o Base64(SubSeq(bytes, 4, Len(bytes)))

Colon == <<58>>          \* the byte of ':' in `${username}:${password}`

(***************************************************************************)
(* Configurations given to the constructor.                                *)
(***************************************************************************)
DefaultTimeout == 30000
DefaultRetryAttempts == 3
DefaultRetryDelay == 1000

Usernames == { <<117>>, <<116, 101>> }              \* "u", "te"
Passwords == { <<112>> }                            \* "p"
TimeoutInputs == { None, Some(50) }
RetryDelayInputs == { None, Some(10) }
RetryAttemptsInputs == { None } \cup { Some(n) : n \in -1..MaxRetryAttempts }

\* Text of a URL, one character per element.
Http == <<"h","t","t","p">>
HttpsScheme == <<"h","t","t","p","s",":","/","/">>
CloudDomain == <<".","g","r","i","d","d","b",".","c","l","o","u","d">>
LocalUrl == <<"h","t","t","p",":","/","/","h">>                   \* "http://h"
SecureUrl == HttpsScheme \o <<"h","/">>                           \* "https://h/"
CloudUrl == HttpsScheme \o <<"c">> \o CloudDomain                 \* "https://c.griddb.cloud"

\* String.prototype.startsWith, includes, and replace(/\/$/, '')
StartsWith(text, prefix) ==
  Len(text) >= Len(prefix) /\ SubSeq(text, 1, Len(prefix)) = prefix
Includes(text, part) ==
  \E i \in 1..(Len(text) - Len(part) + 1) : SubSeq(text, i, i + Len(part) - 1) = part
RemoveTrailingSlash(text) ==
  IF Len(text) > 0 /\ text[Len(text)] = "/" THEN SubSeq(text, 1, Len(text) - 1) ELSE text

\* username, password, timeout and retryDelay as the callers of the
\* constructor combine them; retryAttempts varies freely.
Profiles ==
  { <<u, p, t, d>> \in Usernames \X Passwords \X TimeoutInputs \X RetryDelayInputs :
      (t = None) <=> (d = None) }

ConfigInputs ==
  { [griddbWebApiUrl |-> Some(LocalUrl),
     username |-> pr[1], password |-> pr[2], timeout |-> pr[3],
     retryDelay |-> pr[4], retryAttempts |-> ra] :
      pr \in Profiles, ra \in RetryAttemptsInputs }

(***************************************************************************)
(* The remote service: status lines and bodies it can answer with.         *)
(***************************************************************************)
Statuses == { 200, 204, 302, 400, 404, 500 }
JsonBody == "{\"success\":true}"
MalformedBody == "Invalid JSON {]"
Bodies == { "", JsonBody, MalformedBody }

\* a 204 answer has no body
BodiesOf(status) == IF status = 204 THEN { "" } ELSE Bodies

StatusText(status) ==
  CASE status = 200 -> "OK"
    [] status = 204 -> "No Content"
    [] status = 302 -> "Found"
    [] status = 400 -> "Bad Request"
    [] status = 404 -> "Not Found"
    [] status = 500 -> "Internal Server Error"
    [] OTHER -> ""

\* response.ok taken to be "status is 200"
Ok_OnlyTwoHundred(status) == status = 200

\* response.ok
Ok(status) == status >= 200 /\ status <= 299

\* JSON.parse: the parsed value, or a SyntaxError.
JSONparse(text) ==
  IF text = JsonBody
  THEN [ok |-> TRUE, value |-> [type |-> "object", props |-> << <<"success", "true">> >>]]
  ELSE [ok |-> FALSE, value |-> Undefined]

(***************************************************************************)
(* Errors.                                                                 *)
(***************************************************************************)
GridDBError(message, code, status, details) ==
  [name |-> "GridDBError", message |-> message,
   code |-> code, status |-> status, details |-> details]

\* fetch() or response.text() rejecting on a network failure
NetworkError ==
  [name |-> "TypeError", message |-> <<"fetch failed">>,
   code |-> None, status |-> None, details |-> Undefined]

\* fetch() rejecting because controller.abort() ran
AbortError ==
  [name |-> "AbortError", message |-> <<"This operation was aborted">>,
   code |-> None, status |-> None, details |-> Undefined]

InstanceOfGridDBError(error) == error # Undefined /\ error.name = "GridDBError"

\* lastError?.message inside a template string
MessageOf(error) == IF error = Undefined THEN <<"undefined">> ELSE error.message

Resolved(value) == [type |-> "resolved", value |-> value]
Rejected(error) == [type |-> "rejected", error |-> error]

(***************************************************************************)
(* Values of the row codec (src/utils/transformers.ts).  A string is its   *)
(* characters; a number is its floor and its first decimal digit; a Date   *)
(* is its time value, kept as days since the epoch and milliseconds of the *)
(* day, or invalid.                                                        *)
(***************************************************************************)
Null == [type |-> "null"]
JSNumber(floor, tenths) == [type |-> "number", value |-> floor, tenths |-> tenths]
JSInt(n) == JSNumber(n, 0)
NaN == [type |-> "NaN"]
JSDate(day, ms) == [type |-> "date", valid |-> TRUE, day |-> day, ms |-> ms]
InvalidDate == [type |-> "date", valid |-> FALSE, day |-> 0, ms |-> 0]
JSBuffer(bytes) == [type |-> "buffer", bytes |-> bytes]
RangeError ==
  [name |-> "RangeError", message |-> <<"Invalid time value">>,
   code |-> None, status |-> None, details |-> Undefined]

DigitChars == <<"0","1","2","3","4","5","6","7","8","9">>
Digit(d) == DigitChars[d + 1]
IsDigit(ch) == \E d \in 0..9 : Digit(d) = ch
DigitValue(ch) == CHOOSE d \in 0..9 : Digit(d) = ch
AllDigits(text) == \A i \in 1..Len(text) : IsDigit(text[i])

\* n written with exactly `width` digits
RECURSIVE Pad(_, _)
Pad(n, width) ==
  IF width = 0 THEN <<>> ELSE Pad(n \div 10, width - 1) \o <<Digit(n % 10)>>

\* n >= 0 written in decimal
RECURSIVE Decimal(_)
Decimal(n) == IF n < 10 THEN <<Digit(n)>> ELSE Decimal(n \div 10) \o <<Digit(n % 10)>>

\* the number a text of digits denotes
RECURSIVE ParseDigits(_)
ParseDigits(text) ==
  IF text = <<>> THEN 0
  ELSE ParseDigits(SubSeq(text, 1, Len(text) - 1)) * 10 + DigitValue(text[Len(text)])

\* the longest prefix of digits
RECURSIVE DigitPrefix(_)
DigitPrefix(text) ==
  IF text = <<>> \/ ~IsDigit(text[1]) THEN <<>>
  ELSE <<text[1]>> \o DigitPrefix(SubSeq(text, 2, Len(text)))

\* Buffer.prototype.toString() of bytes that are ASCII letters
AsciiChar(byte) ==
  CASE byte = 101 -> "e" [] byte = 104 -> "h" [] byte = 105 -> "i"
    [] byte = 112 -> "p" [] byte = 116 -> "t" [] byte = 117 -> "u"
    [] OTHER -> "?"
BufferToString(bytes) == [i \in DOMAIN bytes |-> AsciiChar(bytes[i])]

\* Date.prototype.toString(): "Invalid Date", or the weekday name followed by
\* the date and time in the time zone of the process; the part that varies
\* with the time zone is kept as one element naming the instant
DateToString(date) ==
  IF ~date.valid THEN <<"I","n","v","a","l","i","d"," ","D","a","t","e">>
  ELSE <<"Www Mmm dd yyyy hh:mm:ss GMT+zzzz of ", ToString(date.day), "d ",
         ToString(date.ms), "ms">>

\* String(value)
String(value) ==
  CASE value.type = "string" -> value.value
    [] value.type = "date" -> DateToString(value)
    [] value.type = "buffer" -> BufferToString(value.bytes)
    [] value.type = "number" ->
         LET whole == IF value.value >= 0 \/ value.tenths = 0
                      THEN value.value ELSE value.value + 1
             magnitude == IF whole < 0 THEN 0 - whole ELSE whole
             sign == IF value.value < 0 THEN <<"-">> ELSE <<>>
             fraction == IF value.tenths = 0 THEN <<>>
                         ELSE <<".", Digit(IF value.value >= 0 THEN value.tenths
                                           ELSE 10 - value.tenths)>>
         IN  sign \o Decimal(magnitude) \o fraction
    [] value.type = "NaN" -> <<"N","a","N">>
    [] value.type = "boolean" ->
         IF value.value THEN <<"t","r","u","e">> ELSE <<"f","a","l","s","e">>
    [] value.type = "null" -> <<"n","u","l","l">>
    [] value.type = "undefined" -> <<"u","n","d","e","f","i","n","e","d">>

\* parseInt(text, 10): optional sign, then the digits the text starts with
parseInt(text) ==
  LET negative == text # <<>> /\ text[1] = "-"
      rest == IF text # <<>> /\ text[1] \in {"-", "+"}
              THEN SubSeq(text, 2, Len(text)) ELSE text
      digits == DigitPrefix(rest)
  IN  IF digits = <<>> THEN NaN
      ELSE JSInt(IF negative THEN 0 - ParseDigits(digits) ELSE ParseDigits(digits))

\* parseFloat(text): as parseInt, with one decimal digit after a point
parseFloat(text) ==
  LET negative == text # <<>> /\ text[1] = "-"
      rest == IF text # <<>> /\ text[1] \in {"-", "+"}
              THEN SubSeq(text, 2, Len(text)) ELSE text
      digits == DigitPrefix(rest)
      after == SubSeq(rest, Len(digits) + 1, Len(rest))
      tenths == IF Len(after) >= 2 /\ after[1] = "." /\ IsDigit(after[2])
                THEN DigitValue(after[2]) ELSE 0
      whole == ParseDigits(digits)
  IN  IF digits = <<>> THEN NaN
      ELSE IF ~negative THEN JSNumber(whole, tenths)
      ELSE IF tenths = 0 THEN JSInt(0 - whole)
      ELSE JSNumber(0 - whole - 1, 10 - tenths)

\* Boolean(value)
Boolean(value) ==
  CASE value.type \in {"null", "undefined", "NaN"} -> FALSE
    [] value.type = "number" -> ~(value.value = 0 /\ value.tenths = 0)
    [] value.type = "string" -> value.value # <<>>
    [] value.type = "boolean" -> value.value
    [] OTHER -> TRUE

(***************************************************************************)
(* Date: the proleptic Gregorian calendar in UTC, years 0000 to 9999.      *)
(***************************************************************************)
MsPerDay == 86400000

DaysFromCivil(y, m, d) ==
  LET yy == IF m <= 2 THEN y - 1 ELSE y
      era == yy \div 400
      yoe == yy - era * 400
      doy == (153 * (IF m > 2 THEN m - 3 ELSE m + 9) + 2) \div 5 + d - 1
      doe == yoe * 365 + yoe \div 4 - yoe \div 100 + doy
  IN  era * 146097 + doe - 719468

CivilFromDays(day) ==
  LET z == day + 719468
      era == z \div 146097
      doe == z - era * 146097
      yoe == (doe - doe \div 1460 + doe \div 36524 - doe \div 146096) \div 365
      doy == doe - (365 * yoe + yoe \div 4 - yoe \div 100)
      mp == (5 * doy + 2) \div 153
      d == doy - (153 * mp + 2) \div 5 + 1
      m == IF mp < 10 THEN mp + 3 ELSE mp - 9
      y == yoe + era * 400 + (IF m <= 2 THEN 1 ELSE 0)
  IN  [year |-> y, month |-> m, date |-> d]

IsLeapYear(y) == (y % 4 = 0 /\ y % 100 # 0) \/ y % 400 = 0
DaysInMonth(y, m) ==
  IF m = 2 THEN (IF IsLeapYear(y) THEN 29 ELSE 28)
  ELSE IF m \in {4, 6, 9, 11} THEN 30 ELSE 31

\* the month written as getUTCMonth() gives it, counted from 0
toISOString_MonthFromZero(date) ==
  LET civil == CivilFromDays(date.day)
      seconds == date.ms \div 1000
  IN  Pad(civil.year, 4) \o <<"-">> \o Pad(civil.month - 1, 2) \o <<"-">> \o
      Pad(civil.date, 2) \o <<"T">> \o Pad(seconds \div 3600, 2) \o <<":">> \o
      Pad((seconds \div 60) % 60, 2) \o <<":">> \o Pad(seconds % 60, 2) \o
      <<".">> \o Pad(date.ms % 1000, 3) \o <<"Z">>

\* Date.prototype.toISOString of a valid date: YYYY-MM-DDTHH:mm:ss.sssZ
toISOString(date) ==
  LET civil == CivilFromDays(date.day)
      seconds == date.ms \div 1000
  IN  Pad(civil.year, 4) \o <<"-">> \o Pad(civil.month, 2) \o <<"-">> \o
      Pad(civil.date, 2) \o <<"T">> \o Pad(seconds \div 3600, 2) \o <<":">> \o
      Pad((seconds \div 60) % 60, 2) \o <<":">> \o Pad(seconds % 60, 2) \o
      <<".">> \o Pad(date.ms % 1000, 3) \o <<"Z">>

\* text has the form YYYY-MM-DDTHH:mm:ss.sssZ with every field in range
IsIsoDateTime(text) ==
  /\ Len(text) = 24
  /\ AllDigits(SubSeq(text, 1, 4)) /\ text[5] = "-"
  /\ AllDigits(SubSeq(text, 6, 7)) /\ text[8] = "-"
  /\ AllDigits(SubSeq(text, 9, 10)) /\ text[11] = "T"
  /\ AllDigits(SubSeq(text, 12, 13)) /\ text[14] = ":"
  /\ AllDigits(SubSeq(text, 15, 16)) /\ text[17] = ":"
  /\ AllDigits(SubSeq(text, 18, 19)) /\ text[20] = "."
  /\ AllDigits(SubSeq(text, 21, 23)) /\ text[24] = "Z"
  /\ LET y == ParseDigits(SubSeq(text, 1, 4))
         m == ParseDigits(SubSeq(text, 6, 7))
     IN  /\ m \in 1..12
         /\ ParseDigits(SubSeq(text, 9, 10)) \in 1..DaysInMonth(y, m)
  /\ ParseDigits(SubSeq(text, 12, 13)) \in 0..23
  /\ ParseDigits(SubSeq(text, 15, 16)) \in 0..59
  /\ ParseDigits(SubSeq(text, 18, 19)) \in 0..59

\* new Date(text): the instant an ISO date-time text denotes; texts that are
\* not date texts in any engine give an invalid date
DateParse(text) ==
  IF IsIsoDateTime(text)
  THEN JSDate(DaysFromCivil(ParseDigits(SubSeq(text, 1, 4)),
                            ParseDigits(SubSeq(text, 6, 7)),
                            ParseDigits(SubSeq(text, 9, 10))),
              ParseDigits(SubSeq(text, 12, 13)) * 3600000
                + ParseDigits(SubSeq(text, 15, 16)) * 60000
                + ParseDigits(SubSeq(text, 18, 19)) * 1000
                + ParseDigits(SubSeq(text, 21, 23)))
  ELSE InvalidDate

\* new Date(value) for a value that is not a Date
NewDate(value) ==
  CASE value.type = "string" -> DateParse(value.value)
    [] value.type = "buffer" -> DateParse(BufferToString(value.bytes))
    [] value.type = "number" ->
         LET time == IF value.value < 0 /\ value.tenths > 0
                     THEN value.value + 1 ELSE value.value
         IN  JSDate(time \div MsPerDay, time % MsPerDay)
    [] value.type = "boolean" -> JSDate(0, IF value.value THEN 1 ELSE 0)
    [] OTHER -> InvalidDate

(***************************************************************************)
(* The row codec (src/utils/transformers.ts).  A keyed row is an object:   *)
(* its properties as <<key, value>> pairs in insertion order.  A call      *)
(* returns a value or throws.                                              *)
(***************************************************************************)
Returned(value) == [type |-> "returned", value |-> value]
Thrown(error) == [type |-> "thrown", error |-> error]
JSObject(props) == [type |-> "object", props |-> props]
JSArray(items) == [type |-> "array", items |-> items]

HasKey(props, key) == \E i \in DOMAIN props : props[i][1] = key
\* row[key]
Get(props, key) ==
  IF HasKey(props, key)
  THEN props[CHOOSE i \in DOMAIN props : props[i][1] = key][2]
  ELSE Undefined
\* row[key] = value
Put(props, key, value) ==
  IF HasKey(props, key)
  THEN [i \in DOMAIN props |-> IF props[i][1] = key THEN <<key, value>> ELSE props[i]]
  ELSE Append(props, <<key, value>>)

\* a property key that is an array index: canonical text of an integer >= 0
IsArrayIndex(key) == key # <<>> /\ AllDigits(key) /\ (Len(key) = 1 \/ key[1] # "0")

RECURSIVE AscendingIndexProps(_, _)
AscendingIndexProps(props, positions) ==
  IF positions = {} THEN <<>>
  ELSE LET first == CHOOSE i \in positions :
                      \A j \in positions :
                        ParseDigits(props[i][1]) <= ParseDigits(props[j][1])
       IN  <<props[first]>> \o AscendingIndexProps(props, positions \ {first})

\* own properties in the order Object.values and Object.keys visit them:
\* array-index keys ascending, then the other keys in insertion order
OwnProperties(props) ==
  AscendingIndexProps(props, {i \in DOMAIN props : IsArrayIndex(props[i][1])})
    \o SelectSeq(props, LAMBDA pr : ~IsArrayIndex(pr[1]))

ObjectValues(props) == [i \in DOMAIN props |-> OwnProperties(props)[i][2]]

\* typeof value === 'number'
IsNumber(value) == value.type \in {"number", "NaN"}
MathFloor(value) == IF value.type = "NaN" THEN NaN ELSE JSInt(value.value)

\* String.prototype.toUpperCase on the names of column types
toUpperCase(columnType) ==
  CASE columnType = "timestamp" -> "TIMESTAMP"
    [] columnType = "integer" -> "INTEGER"
    [] OTHER -> columnType

\* an invalid Date is passed on as it is
toGridDBValue_InvalidDateKept(value) ==
  CASE value.type \in {"null", "undefined"} -> Null
    [] value.type = "date" ->
         IF ~value.valid THEN value ELSE JSString(toISOString(value))
    [] value.type = "buffer" -> JSString(Base64(value.bytes))
    [] OTHER -> value

\* toGridDBValue (lines 154-178)
toGridDBValue(value) ==
  CASE value.type \in {"null", "undefined"} -> Null
    [] value.type = "date" ->
         IF ~value.valid THEN Null ELSE JSString(toISOString(value))
    [] value.type = "buffer" -> JSString(Base64(value.bytes))
    [] OTHER -> value

\* convertToGridDBType (lines 111-149)
convertToGridDBType(value, columnType) ==
  IF value.type \in {"null", "undefined"} THEN Returned(Null)
  ELSE
    LET type == toUpperCase(columnType)
    IN  CASE type \in {"INTEGER", "LONG"} ->
               Returned(IF IsNumber(value) THEN MathFloor(value)
                        ELSE parseInt(String(value)))
          [] type \in {"DOUBLE", "FLOAT"} ->
               Returned(IF IsNumber(value) THEN value ELSE parseFloat(String(value)))
          [] type = "STRING" -> Returned(JSString(String(value)))
          [] type \in {"BOOL", "BOOLEAN"} -> Returned(JSBoolean(Boolean(value)))
          [] type = "TIMESTAMP" ->
               IF value.type = "date"
               THEN Returned(IF ~value.valid THEN Null ELSE JSString(toISOString(value)))
               ELSE IF NewDate(value).valid
                    THEN Returned(JSString(toISOString(NewDate(value))))
                    ELSE Thrown(RangeError)
          [] type = "BLOB" ->
               Returned(IF value.type = "buffer" THEN JSString(Base64(value.bytes))
                        ELSE value)
          [] OTHER -> Returned(toGridDBValue(value))

\* fromGridDBValue (lines 183-200)
fromGridDBValue(value, type) ==
  IF value.type \in {"null", "undefined"} THEN Null
  ELSE IF type = "TIMESTAMP" /\ value.type = "string" THEN DateParse(value.value)
  ELSE value

NoSchema == [type |-> "undefined"]

\* the branch of transformRowToArray a call takes (lines 20-38)
RowToArrayBranch(row, containerSchema) ==
  IF row.type \in {"null", "undefined"} THEN "empty"
  ELSE IF row.type = "array" THEN "array"
  ELSE IF containerSchema # NoSchema /\ Len(containerSchema.items) > 0 THEN "schema"
  ELSE "generic"

\* the schema is not looked at: a keyed row is always encoded generically
transformRowToArray_IgnoresSchema(row, containerSchema) ==
  IF row.type = "object"
  THEN Returned(JSArray([i \in DOMAIN row.props |->
                           toGridDBValue(ObjectValues(row.props)[i])]))
  ELSE Returned(JSArray(<<>>))

\* transformRowToArray (lines 16-39)
transformRowToArray(row, containerSchema) ==
  CASE RowToArrayBranch(row, containerSchema) = "empty" -> Returned(JSArray(<<>>))
    [] RowToArrayBranch(row, containerSchema) = "array" -> Returned(row)
    [] RowToArrayBranch(row, containerSchema) = "schema" ->
         LET columns == containerSchema.items
             converted == [i \in DOMAIN columns |->
                            convertToGridDBType(Get(row.props, columns[i].name),
                                                columns[i].type)]
         IN  IF \E i \in DOMAIN columns : converted[i].type = "thrown"
             THEN converted[CHOOSE i \in DOMAIN columns :
                              /\ converted[i].type = "thrown"
                              /\ \A j \in 1..(i - 1) : converted[j].type # "thrown"]
             ELSE Returned(JSArray([i \in DOMAIN columns |-> converted[i].value]))
    [] RowToArrayBranch(row, containerSchema) = "generic" ->
         Returned(JSArray([i \in DOMAIN row.props |->
                             toGridDBValue(ObjectValues(row.props)[i])]))

\* console.warn calls of transformRowToArray (line 35)
RowToArrayWarnings(row, containerSchema) ==
  IF RowToArrayBranch(row, containerSchema) = "generic" THEN 1 ELSE 0

\* transformArrayToRow (lines 44-56)
transformArrayToRow(array, columns) ==
  IF array.type \in {"null", "undefined"} \/ columns.type \in {"null", "undefined"}
  THEN JSObject(<<>>)
  ELSE
    LET Item(index) == IF index <= Len(array.items) THEN array.items[index] ELSE Undefined
        RECURSIVE ForEach(_, _)
        ForEach(props, index) ==
          IF index > Len(columns.items) THEN props
          ELSE ForEach(Put(props, columns.items[index], Item(index)), index + 1)
    IN  JSObject(ForEach(<<>>, 1))

(***************************************************************************)
(* buildSelectQuery (transformers.ts 61-106).  An option that is absent is *)
(* None; one that is present is Some(value).                               *)
(***************************************************************************)
\* Array.prototype.join
RECURSIVE Join(_, _)
Join(texts, separator) ==
  IF texts = <<>> THEN <<>>
  ELSE IF Len(texts) = 1 THEN texts[1]
  ELSE texts[1] \o separator \o Join(SubSeq(texts, 2, Len(texts)), separator)

KwSelect == <<"S","E","L","E","C","T"," ">>
KwFrom == <<" ","F","R","O","M"," ">>
KwWhere == <<" ","W","H","E","R","E"," ">>
KwOrderBy == <<" ","O","R","D","E","R"," ","B","Y"," ">>
KwLimit == <<" ","L","I","M","I","T"," ">>
KwOffset == <<" ","O","F","F","S","E","T"," ">>
Asc == <<"A","S","C">>
Desc == <<"D","E","S","C">>
Star == <<"*">>
CommaSpace == <<",", " ">>
Space == <<" ">>

\* ORDER BY comes after LIMIT and OFFSET
buildSelectQuery_OrderLast(options) ==
  LET order == IF options.order = None THEN Asc ELSE options.order[1]
      stmt == KwSelect
        \o (IF options.columns # None /\ Len(options.columns[1]) > 0
            THEN Join(options.columns[1], CommaSpace) ELSE Star)
        \o KwFrom \o options.containerName
        \o (IF options.where # None /\ options.where[1] # <<>>
            THEN KwWhere \o options.where[1] ELSE <<>>)
        \o (IF options.limit # None
            THEN KwLimit \o String(JSInt(options.limit[1])) ELSE <<>>)
        \o (IF options.offset # None
            THEN KwOffset \o String(JSInt(options.offset[1])) ELSE <<>>)
        \o (IF options.orderBy # None /\ options.orderBy[1] # <<>>
            THEN KwOrderBy \o options.orderBy[1] \o Space \o order ELSE <<>>)
  IN  [type |-> "sql-select", stmt |-> stmt, bindings |-> options.bindings]

buildSelectQuery(options) ==
  LET order == IF options.order = None THEN Asc ELSE options.order[1]
      stmt == KwSelect
        \o (IF options.columns # None /\ Len(options.columns[1]) > 0
            THEN Join(options.columns[1], CommaSpace) ELSE Star)
        \o KwFrom \o options.containerName
        \o (IF options.where # None /\ options.where[1] # <<>>
            THEN KwWhere \o options.where[1] ELSE <<>>)
        \o (IF options.orderBy # None /\ options.orderBy[1] # <<>>
            THEN KwOrderBy \o options.orderBy[1] \o Space \o order ELSE <<>>)
        \o (IF options.limit # None
            THEN KwLimit \o String(JSInt(options.limit[1])) ELSE <<>>)
        \o (IF options.offset # None
            THEN KwOffset \o String(JSInt(options.offset[1])) ELSE <<>>)
  IN  [type |-> "sql-select", stmt |-> stmt, bindings |-> options.bindings]

(***************************************************************************)
(* Construction: GridDBClient (client.ts 23-52) and GridDBCloudClient      *)
(* (cloud-client.ts 14-54).  A constructor returns the object it built or  *)
(* throws.                                                                 *)
(***************************************************************************)
\* config.griddbWebApiUrl.replace(...) on undefined
ReplaceOfUndefined ==
  [name |-> "TypeError",
   message |-> <<"Cannot read properties of undefined (reading 'replace')">>,
   code |-> None, status |-> None, details |-> Undefined]

ConfigError(text) == GridDBError(<<text>>, None, None, Undefined)

\* validateConfig: the error it throws, or Undefined when it returns
validateConfig(cfg) ==
  IF cfg.griddbWebApiUrl = None \/ cfg.griddbWebApiUrl[1] = <<>>
  THEN ConfigError("GridDB Web API URL is required")
  ELSE IF cfg.username = <<>> \/ cfg.password = <<>>
  THEN ConfigError("GridDB username and password are required")
  ELSE IF ~StartsWith(cfg.griddbWebApiUrl[1], Http)
  THEN ConfigError("GridDB Web API URL must start with http:// or https://")
  ELSE Undefined

\* new GridDBClient(cfg)
GridDBClient(cfg) ==
  IF cfg.griddbWebApiUrl = None THEN Thrown(ReplaceOfUndefined)
  ELSE
    LET this == [type |-> "client", config |-> cfg,
                 baseUrl |-> RemoveTrailingSlash(cfg.griddbWebApiUrl[1]),
                 authToken |-> Base64(cfg.username \o Colon \o cfg.password),
                 timeout |-> OrDefault(cfg.timeout, DefaultTimeout),
                 retryAttempts |-> OrDefault(cfg.retryAttempts, DefaultRetryAttempts),
                 retryDelay |-> OrDefault(cfg.retryDelay, DefaultRetryDelay),
                 cloud |-> FALSE, warnings |-> 0]
        error == validateConfig(cfg)
    IN  IF error # Undefined THEN Thrown(error) ELSE this

DefaultCloudTimeout == 60000
DefaultCloudRetryAttempts == 5
DefaultCloudRetryDelay == 2000

\* validateCloudConfig: the error it throws, or Undefined when it returns
validateCloudConfig(this) ==
  IF this.cluster = <<>>
  THEN ConfigError("GridDB Cloud cluster name is required")
  ELSE IF this.database = <<>>
  THEN ConfigError("GridDB Cloud database name is required")
  ELSE IF ~StartsWith(this.config.griddbWebApiUrl[1], HttpsScheme)
  THEN ConfigError("GridDB Cloud requires HTTPS connection")
  ELSE Undefined

\* console.warn calls of validateCloudConfig (line 46), when it gets that far
CloudWarnings(this) ==
  IF this.cluster # <<>> /\ this.database # <<>>
     /\ ~Includes(this.config.griddbWebApiUrl[1], CloudDomain)
  THEN 1 ELSE 0

\* new GridDBCloudClient(cfg)
GridDBCloudClient(cfg) ==
  LET cloudConfig ==
        [cfg EXCEPT !.useSSL = Some(cfg.useSSL # Some(FALSE)),
                    !.timeout = Some(OrDefault(cfg.timeout, DefaultCloudTimeout)),
                    !.retryAttempts =
                       Some(OrDefault(cfg.retryAttempts, DefaultCloudRetryAttempts)),
                    !.retryDelay = Some(OrDefault(cfg.retryDelay, DefaultCloudRetryDelay))]
      super == GridDBClient(cloudConfig)
  IN  IF super.type = "thrown" THEN super
      ELSE
        LET this == [cluster |-> cfg.cluster, database |-> cfg.database,
                     cloudRegion |-> cfg.cloudRegion] @@
                    [super EXCEPT !.cloud = TRUE]
            error == validateCloudConfig(this)
        IN  IF error # Undefined THEN Thrown(error)
            ELSE [this EXCEPT !.warnings = CloudWarnings(this)]

(***************************************************************************)
(* State.                                                                  *)
(***************************************************************************)
VARIABLES
  config,          \* this.config
  authToken,       \* this.authToken
  timeout,         \* this.timeout
  retryAttempts,   \* this.retryAttempts
  retryDelay,      \* this.retryDelay
  calls,           \* the calls on the client: locals of request, and what it did
  ncalls,          \* number of calls issued so far
  authSent,        \* Authorization values given to fetch() by calls without skipAuth
  cloud,           \* this.cluster, this.database, this.cloudRegion of a cloud client
  ctor,            \* a constructor call: its argument and what it did
  codec,           \* a call of a function of utils/transformers: arguments, result
  batch,           \* a call of CRUDOperations.batchInsert: locals, write calls made
  logger,          \* this.logger of the client that each call slot is made on
  profile,         \* the object given to the constructor, and what getConfig returned
  generator,       \* a SnowflakeIdGenerator, the clock it reads, the IDs it returned
  crud             \* calls of insert and upsert, the rows the container holds

clientVars == <<config, authToken, timeout, retryAttempts, retryDelay, cloud>>
vars ==
  <<config, authToken, timeout, retryAttempts, retryDelay, calls, ncalls, authSent,
    cloud, ctor, codec, batch, logger, profile, generator, crud>>
\* what the calls on a client and the functions of utils/transformers leave alone
restVars == <<logger, profile, generator, crud>>

\* no function of utils/transformers is being called
NoCodecCall == [op |-> "none", pc |-> "idle"]
\* batchInsert is not being called
NoBatch == [pc |-> "idle"]
\* no logger was given to the constructor; no object is followed; no
\* generator exists; no insert or upsert is being called
NoLogger == None
NoProfile == [pc |-> "idle"]
NoGenerator == [pc |-> "idle"]
NoCrud == [pc |-> "idle"]
Untouched ==
  /\ profile = NoProfile
  /\ generator = NoGenerator
  /\ crud = NoCrud

\* a client of the base class has no cloud fields
NotCloud == [isCloud |-> FALSE]
CloudFields(this) ==
  IF this.cloud
  THEN [isCloud |-> TRUE, cluster |-> this.cluster, database |-> this.database,
        cloudRegion |-> this.cloudRegion]
  ELSE NotCloud

\* a constructor call that returned `this`
Constructed(kind, input, this) ==
  [kind |-> kind, input |-> input, pc |-> "done", outcome |-> this]

Slots == {1}

\* A call that has not been made.
NoCall ==
  [op |-> "none", skipAuth |-> FALSE, headers |-> <<>>, requestHeaders |-> <<>>,
   pc |-> "idle", attempt |-> 0, lastError |-> Undefined, timer |-> None,
   status |-> 0, responseText |-> "", result |-> Undefined, returned |-> Undefined,
   attempts |-> 0, outcomes |-> <<>>, delays |-> <<>>, sent |-> <<>>,
   logger |-> NoLogger]

\* the fields of a client built by new GridDBClient(input)
ClientStart(input) ==
  LET this == GridDBClient(input)
  IN  /\ this.type = "client"
      /\ config = this.config
      /\ authToken = this.authToken
      /\ timeout = this.timeout
      /\ retryAttempts = this.retryAttempts
      /\ retryDelay = this.retryDelay
      /\ cloud = CloudFields(this)
      /\ ctor = Constructed("GridDBClient", input, this)
      /\ codec = NoCodecCall
      /\ batch = NoBatch
      /\ generator = NoGenerator
      /\ crud = NoCrud
      /\ ncalls = 0
      /\ authSent = {}

\* a client built by new GridDBClient(input), no call made yet
Init ==
  /\ \E input \in ConfigInputs : ClientStart(input)
  /\ calls = [c \in Slots |-> NoCall]
  /\ logger = [c \in Slots |-> NoLogger]
  /\ profile = NoProfile

(***************************************************************************)
(* Headers of a call (request, lines 66-77).                               *)
(***************************************************************************)
ContentType == <<"application/json; charset=UTF-8">>
BasicAuth(token) == <<"Basic ">> \o token

\* { ...a, ...b }
Spread(a, b) == b @@ a

\* headers the callers pass in options.headers; <<>> is {}
CallerHeaders ==
  { <<>>,
    ("Authorization" :> <<"Bearer ", "x">>) @@ ("X-Custom" :> <<"1">>) }

\* Authorization set before the caller's headers are spread over it
RequestHeaders_CallerWins(headers, skipAuth) ==
  LET requestHeaders == "Content-Type" :> ContentType
  IN  IF ~skipAuth
      THEN Spread(("Authorization" :> BasicAuth(authToken)) @@ requestHeaders, headers)
      ELSE Spread(requestHeaders, headers)

RequestHeaders(headers, skipAuth) ==
  LET requestHeaders == Spread("Content-Type" :> ContentType, headers)
  IN  IF ~skipAuth
      THEN ("Authorization" :> BasicAuth(authToken)) @@ requestHeaders
      ELSE requestHeaders

(***************************************************************************)
(* The logger (client.ts 26, 29): absent, or an object whose methods are   *)
(* called at line 79 ("request"), line 99 ("response") and line 132        *)
(* ("warn").  A logger is given by the calls of it that raise.             *)
(***************************************************************************)
LogSites == { "request", "response", "warn" }
Loggers == { NoLogger } \cup { Some(raising) : raising \in SUBSET LogSites }
LoggerError ==
  [name |-> "Error", message |-> <<"logger failed">>,
   code |-> None, status |-> None, details |-> Undefined]
\* this.logger?.debug(...) or this.logger?.warn(...) of the call s raises
Raises(s, site) == s.logger # NoLogger /\ site \in s.logger[1]

(***************************************************************************)
(* The code of request between two awaits, as functions of the call s.     *)
(***************************************************************************)
\* line 184 testing for any client error instead of 404
containerExists_AnyClientError(result) ==
  IF result.type = "resolved" THEN Resolved(JSBoolean(TRUE))
  ELSE IF /\ InstanceOfGridDBError(result.error)
          /\ result.error.status # None
          /\ result.error.status[1] >= 400
          /\ result.error.status[1] < 500
       THEN Resolved(JSBoolean(FALSE))
       ELSE result

\* containerExists, lines 179-189: what it makes of the outcome of this.get
containerExists(result) ==
  IF result.type = "resolved" THEN Resolved(JSBoolean(TRUE))
  ELSE IF InstanceOfGridDBError(result.error) /\ result.error.status = Some(404)
       THEN Resolved(JSBoolean(FALSE))
       ELSE result

\* request returns or throws; the caller's await continues
Settle(s, result) ==
  [s EXCEPT !.pc = "done", !.result = result,
            !.returned = IF s.op = "containerExists"
                         THEN containerExists(result) ELSE result]

\* lines 140-145 without the fourth argument
ExhaustedError_NoCause(lastError) ==
  GridDBError(<<"Request failed after ", ToString(retryAttempts), " attempts: ">>
                \o MessageOf(lastError),
              None, None, Undefined)

\* lines 140-145
ExhaustedError(lastError) ==
  GridDBError(<<"Request failed after ", ToString(retryAttempts), " attempts: ">>
                \o MessageOf(lastError),
              None, None, lastError)

\* the loop condition written attempt < this.retryAttempts
NextAttempt_StrictBound(s) ==
  IF s.attempt < retryAttempts
  THEN [s EXCEPT !.pc = "fetch", !.timer = Some(timeout),
                 !.status = 0, !.responseText = "",
                 !.attempts = @ + 1, !.sent = Append(@, s.requestHeaders)]
  ELSE Settle(s, Rejected(ExhaustedError(s.lastError)))

\* line 83 with s.attempt, then lines 85-93 or lines 140-145
NextAttempt(s) ==
  IF s.attempt <= retryAttempts
  THEN [s EXCEPT !.pc = "fetch", !.timer = Some(timeout),
                 !.status = 0, !.responseText = "",
                 !.attempts = @ + 1, !.sent = Append(@, s.requestHeaders)]
  ELSE Settle(s, Rejected(ExhaustedError(s.lastError)))

\* lines 102-107
HttpError(status, responseText) ==
  GridDBError(<<"HTTP error! status: ", ToString(status), " - ",
                IF responseText # "" THEN responseText ELSE StatusText(status)>>,
              Some(status), Some(status), JSString(responseText))

\* lines 110-120
Decode(responseText) ==
  IF responseText # ""
  THEN LET parsed == JSONparse(responseText)
       IN  IF parsed.ok THEN parsed.value ELSE JSString(responseText)
  ELSE EmptyObject

\* line 127 with the lower bound written status > 400
IsClientError_Above400(error) ==
  /\ error.status # None
  /\ error.status[1] # 0
  /\ error.status[1] > 400
  /\ error.status[1] < 500

\* line 127
IsClientError(error) ==
  /\ error.status # None
  /\ error.status[1] # 0
  /\ error.status[1] >= 400
  /\ error.status[1] < 500

\* line 134 written attempt <= this.retryAttempts: a wait after the last attempt
Catch_WaitAfterLast(s, error) ==
  LET t == [s EXCEPT !.lastError = error]
  IN  IF InstanceOfGridDBError(error) /\ IsClientError(error)
      THEN Settle(t, Rejected(error))
      ELSE IF t.attempt <= retryAttempts
           THEN [t EXCEPT !.pc = "delay", !.delays = Append(@, retryDelay * t.attempt)]
           ELSE NextAttempt([t EXCEPT !.attempt = @ + 1])

\* the catch block, lines 122-137, and the loop's attempt++; an exception of
\* the logger at line 132 leaves request
Catch(s, error) ==
  LET t == [s EXCEPT !.lastError = error]
  IN  IF InstanceOfGridDBError(error) /\ IsClientError(error)
      THEN Settle(t, Rejected(error))
      ELSE IF Raises(t, "warn")
      THEN Settle(t, Rejected(LoggerError))
      ELSE IF t.attempt < retryAttempts
           THEN [t EXCEPT !.pc = "delay", !.delays = Append(@, retryDelay * t.attempt)]
           ELSE NextAttempt([t EXCEPT !.attempt = @ + 1])

\* JSON.parse of line 113 outside a try of its own: its SyntaxError reaches
\* the catch block of line 122
Respond_ParseThrows(s, responseText) ==
  LET t == [s EXCEPT !.responseText = responseText]
  IN  IF ~Ok(t.status)
      THEN Catch(t, HttpError(t.status, responseText))
      ELSE IF responseText # "" /\ ~JSONparse(responseText).ok
           THEN Catch(t, [name |-> "SyntaxError", message |-> <<"Unexpected token">>,
                          code |-> None, status |-> None, details |-> Undefined])
           ELSE Settle(t, Resolved(Decode(responseText)))

\* lines 97-120 once response.text() has resolved; an exception of the
\* logger at line 99 is caught at line 122
Respond(s, responseText) ==
  LET t == [s EXCEPT !.responseText = responseText]
  IN  IF Raises(t, "response")
      THEN Catch(t, LoggerError)
      ELSE IF ~Ok(t.status)
      THEN Catch(t, HttpError(t.status, responseText))
      ELSE Settle(t, Resolved(Decode(responseText)))

\* getCloudHeaders (cloud-client.ts 59-70)
getCloudHeaders(this) ==
  LET headers == ("X-GridDB-Cluster" :> this.cluster) @@
                 ("X-GridDB-Database" :> this.database)
  IN  IF this.cloudRegion # None /\ this.cloudRegion[1] # <<>>
      THEN ("X-GridDB-Region" :> this.cloudRegion[1]) @@ headers
      ELSE headers

\* the cloud headers spread over the caller's headers
MergedHeaders_CloudWins(headers) ==
  IF cloud.isCloud THEN Spread(headers, getCloudHeaders(cloud)) ELSE headers

\* options.headers as super.request receives them: GridDBCloudClient.request
\* (cloud-client.ts 84-92) merges, GridDBClient.request is called directly
MergedHeaders(headers) ==
  IF cloud.isCloud THEN Spread(getCloudHeaders(cloud), headers) ELSE headers

\* headers a caller of a cloud client may also pass: names of the cloud headers
CloudCallerHeaders ==
  { ("X-GridDB-Cluster" :> <<"other">>) @@ ("X-GridDB-Region" :> <<"eu">>) }

\* how an attempt ended, as the network saw it
Outcome(kind, status) == [kind |-> kind, status |-> status]
Record(s, kind, status) == [s EXCEPT !.outcomes = Append(@, Outcome(kind, status))]

(***************************************************************************)
(* Actions.                                                                *)
(***************************************************************************)
\* one attempt counter for all calls of the client: a step of the call c
\* sets the counter of every call in progress
Step_SharedAttempt(c, before, after) ==
  /\ calls' = [d \in DOMAIN calls |->
                IF d = c THEN after
                ELSE IF calls[d].pc \in {"idle", "done"} THEN calls[d]
                ELSE [calls[d] EXCEPT !.attempt = after.attempt]]
  /\ authSent' = IF after.attempts > before.attempts /\ ~after.skipAuth
                 THEN authSent \cup
                      { IF "Authorization" \in DOMAIN after.requestHeaders
                        THEN after.requestHeaders["Authorization"]
                        ELSE <<"(none)">> }
                 ELSE authSent
  /\ UNCHANGED <<clientVars, ctor, codec, batch, restVars>>

\* the call c moves from `before` to `after`; a fetch() it issued is recorded
Step(c, before, after) ==
  /\ calls' = [calls EXCEPT ![c] = after]
  /\ authSent' = IF after.attempts > before.attempts /\ ~after.skipAuth
                 THEN authSent \cup
                      { IF "Authorization" \in DOMAIN after.requestHeaders
                        THEN after.requestHeaders["Authorization"]
                        ELSE <<"(none)">> }
                 ELSE authSent
  /\ UNCHANGED <<clientVars, ctor, codec, batch, restVars>>

\* lines 57-93: a new call, up to its first await
Begin(c, op, headers, skipAuth) ==
  /\ ncalls < MaxCalls
  /\ calls[c].pc \in {"idle", "done"}
  /\ ncalls' = ncalls + 1
  /\ LET s == [NoCall EXCEPT !.op = op, !.skipAuth = skipAuth, !.headers = headers,
                             !.requestHeaders =
                                RequestHeaders(MergedHeaders(headers), skipAuth),
                             !.attempt = 1, !.logger = logger[c]]
     IN  Step(c, NoCall, IF Raises(s, "request")
                         THEN Settle(s, Rejected(LoggerError))
                         ELSE NextAttempt(s))

\* client.request(path, {headers, skipAuth})
Request(c) ==
  \E headers \in CallerHeaders \cup (IF cloud.isCloud THEN CloudCallerHeaders ELSE {}),
     skipAuth \in BOOLEAN :
    Begin(c, "request", headers, skipAuth)

\* client.containerExists(name): this.get(path) with no headers
ContainerExists(c) == Begin(c, "containerExists", <<>>, FALSE)

\* fetch() resolves with the status line and headers: lines 95-97
FetchResolve(c) ==
  /\ calls[c].pc = "fetch"
  /\ \E status \in Statuses :
       Step(c, calls[c], [calls[c] EXCEPT !.timer = None, !.status = status, !.pc = "text"])
  /\ UNCHANGED ncalls

\* fetch() rejects on a network failure
FetchReject(c) ==
  /\ calls[c].pc = "fetch"
  /\ Step(c, calls[c], Catch(Record(calls[c], "network", 0), NetworkError))
  /\ UNCHANGED ncalls

\* the timer of line 86 fires while fetch() is pending: abort, fetch() rejects
TimeoutAbort(c) ==
  /\ calls[c].pc = "fetch"
  /\ calls[c].timer # None
  /\ Step(c, calls[c],
          Catch(Record([calls[c] EXCEPT !.timer = None], "timeout", 0), AbortError))
  /\ UNCHANGED ncalls

\* a timer that was not cleared fires after its fetch() has settled: no effect
StaleTimeout(c) ==
  /\ calls[c].pc # "fetch"
  /\ calls[c].timer # None
  /\ Step(c, calls[c], [calls[c] EXCEPT !.timer = None])
  /\ UNCHANGED ncalls

\* response.text() resolves with the whole body
TextResolve(c) ==
  /\ calls[c].pc = "text"
  /\ \E responseText \in BodiesOf(calls[c].status) :
       Step(c, calls[c],
            Respond(Record(calls[c], "response", calls[c].status), responseText))
  /\ UNCHANGED ncalls

\* response.text() rejects: the connection failed while the body was read
TextReject(c) ==
  /\ calls[c].pc = "text"
  /\ Step(c, calls[c],
          Catch(Record(calls[c], "bodyerror", calls[c].status), NetworkError))
  /\ UNCHANGED ncalls

\* the backoff delay of line 135 is over: attempt++ and the next iteration
DelayElapsed(c) ==
  /\ calls[c].pc = "delay"
  /\ Step(c, calls[c], NextAttempt([calls[c] EXCEPT !.attempt = @ + 1]))
  /\ UNCHANGED ncalls

Next ==
  \E c \in DOMAIN calls :
    \/ Request(c)
    \/ ContainerExists(c)
    \/ FetchResolve(c)
    \/ FetchReject(c)
    \/ TimeoutAbort(c)
    \/ StaleTimeout(c)
    \/ TextResolve(c)
    \/ TextReject(c)
    \/ DelayElapsed(c)

Spec == Init /\ [][Next]_vars

\* Timers fire: an armed abort timer and a backoff delay run out.  Nothing
\* obliges the remote service to answer or to finish an answer.
FairSpec ==
  /\ Spec
  /\ \A c \in Slots : WF_vars(TimeoutAbort(c))
  /\ \A c \in Slots : WF_vars(StaleTimeout(c))
  /\ \A c \in Slots : WF_vars(DelayElapsed(c))

(***************************************************************************)
(* Vocabulary of the properties.                                           *)
(***************************************************************************)
\* the attempt was answered with a whole response (status line and body)
IsResponse(o) == o.kind = "response"
ClientErrorResponse(o) == IsResponse(o) /\ o.status >= 400 /\ o.status < 500
SuccessResponse(o) == IsResponse(o) /\ o.status >= 200 /\ o.status < 300

\* a status in [500,600), a network error (before or within the body) or a timeout
RetryableFailure(o) ==
  \/ IsResponse(o) /\ o.status >= 500 /\ o.status < 600
  \/ o.kind \in {"network", "bodyerror", "timeout"}

AllRetryable(os) == \A i \in 1..Len(os) : RetryableFailure(os[i])
Last(seq) == seq[Len(seq)]
Front(seq) == SubSeq(seq, 1, Len(seq) - 1)
Raised(s) == s.pc = "done" /\ s.result.type = "rejected"

\* C1: a call whose first attempt is answered with a response (status line
\* and body received) of status in [400,500) makes exactly one network
\* attempt, waits no backoff delay and raises an error, whatever the
\* retry-attempts count is.
C1_ClientErrorNotRetried ==
  \A c \in DOMAIN calls :
    LET s == calls[c]
    IN  (Len(s.outcomes) >= 1 /\ ClientErrorResponse(s.outcomes[1]))
          => /\ s.attempts = 1
             /\ s.delays = <<>>
             /\ Raised(s)

C1_Witness ==
  \E c \in DOMAIN calls :
    /\ retryAttempts >= 2
    /\ Len(calls[c].outcomes) = 1
    /\ ClientErrorResponse(calls[c].outcomes[1])
    /\ calls[c].outcomes[1].status = 400
    /\ Raised(calls[c])

\* C2: when every attempt of a call ended in a retryable failure, the call has
\* made exactly retryAttempts network attempts when it raises, the error's
\* message cites that count and the message of the last failure, and at no
\* time has a call made more attempts than retryAttempts.
C2_ExhaustsAfterRetryAttempts ==
  \A c \in DOMAIN calls :
    LET s == calls[c]
    IN  /\ s.attempts >= 1 => s.attempts <= retryAttempts
        /\ (s.pc = "done" /\ Len(s.outcomes) >= 1 /\ AllRetryable(s.outcomes))
             => /\ s.attempts = retryAttempts
                /\ Len(s.outcomes) = retryAttempts
                /\ s.result.type = "rejected"
                /\ s.result.error.name = "GridDBError"
                /\ s.result.error.message =
                     <<"Request failed after ", ToString(s.attempts), " attempts: ">>
                       \o (CASE Last(s.outcomes).kind = "timeout" -> AbortError.message
                             [] Last(s.outcomes).kind \in {"network", "bodyerror"} ->
                                  NetworkError.message
                             [] OTHER ->
                                  <<"HTTP error! status: ", ToString(Last(s.outcomes).status),
                                    " - ",
                                    IF s.responseText = ""
                                    THEN StatusText(Last(s.outcomes).status)
                                    ELSE s.responseText>>)

C2_Witness ==
  \E c \in DOMAIN calls :
    /\ calls[c].pc = "done"
    /\ retryAttempts = 3
    /\ calls[c].attempts = 3
    /\ Len(calls[c].outcomes) = 3
    /\ calls[c].outcomes[1].kind = "network"
    /\ calls[c].outcomes[2].kind = "timeout"
    /\ IsResponse(calls[c].outcomes[3]) /\ calls[c].outcomes[3].status = 500
    /\ calls[c].responseText = MalformedBody
    /\ Raised(calls[c])

\* C3: when the first k-1 attempts ended in retryable failures and attempt k
\* is answered with a response (status line and body received) of success
\* status, the call has made exactly k attempts, has resolved with the
\* decoded body of attempt k, and makes no further one.
C3_SuccessAfterRetries ==
  \A c \in DOMAIN calls :
    LET s == calls[c]
        k == Len(s.outcomes)
    IN  (k >= 1 /\ SuccessResponse(s.outcomes[k]) /\ AllRetryable(Front(s.outcomes)))
          => /\ k <= retryAttempts
             /\ s.attempts = k
             /\ s.pc = "done"
             /\ s.result.type = "resolved"
             /\ s.result.value =
                  (IF s.responseText = "" THEN EmptyObject
                   ELSE IF s.responseText = JsonBody
                        THEN [type |-> "object", props |-> << <<"success", "true">> >>]
                        ELSE JSString(s.responseText))

\* the scenario of the specification: 2 retry attempts, a 500 then a 200
C3_Witness ==
  \E c \in DOMAIN calls :
    /\ retryAttempts = 2
    /\ Len(calls[c].outcomes) = 2
    /\ IsResponse(calls[c].outcomes[1]) /\ calls[c].outcomes[1].status = 500
    /\ IsResponse(calls[c].outcomes[2]) /\ calls[c].outcomes[2].status = 200
    /\ calls[c].attempts = 2
    /\ calls[c].responseText = JsonBody
    /\ calls[c].result.type = "resolved"

InProgress(s) == s.pc \in {"fetch", "text", "delay"}

\* C5: every call in progress eventually resolves or raises, whatever the
\* remote service does, also when it never answers or stalls within a
\* response; a call that has resolved or raised issues no further attempt.
C5_EveryCallTerminates ==
  /\ \A c \in Slots : InProgress(calls[c]) ~> (calls[c].pc = "done")
  /\ [](\A c \in Slots :
          calls[c].pc = "done" => calls[c].result.type \in {"resolved", "rejected"})
  /\ [][\A c \in Slots :
          (calls[c].pc = "done" /\ calls'[c].op = calls[c].op /\ calls'[c].pc = "done")
             => calls'[c].attempts = calls[c].attempts]_vars

\* C6: while the network operation of an attempt is in flight, sending the
\* request or receiving the response (status line, headers and body), the
\* abort timer of the attempt is armed.
C6_AttemptBoundedByTimeout ==
  \A c \in DOMAIN calls :
    calls[c].pc \in {"fetch", "text"} => calls[c].timer # None

\* the error an attempt that ended as o leaves in lastError
UnderlyingError(o, responseText) ==
  CASE o.kind = "timeout" -> AbortError
    [] o.kind \in {"network", "bodyerror"} -> NetworkError
    [] OTHER -> [name |-> "GridDBError",
                 message |-> <<"HTTP error! status: ", ToString(o.status), " - ",
                               IF responseText = "" THEN StatusText(o.status)
                               ELSE responseText>>,
                 code |-> Some(o.status), status |-> Some(o.status),
                 details |-> JSString(responseText)]

\* C7 as stated: every error raised by request is a GridDBError that carries
\* the status code and the raw body of the failing response, and the last
\* underlying error when the attempts are exhausted; for a 4xx response
\* status = code = the response status and details = the raw body.
C7_ErrorCarriesStatusAndBody ==
  \A c \in DOMAIN calls :
    LET s == calls[c]
        e == s.result.error
        answered == /\ Len(s.outcomes) >= 1
                    /\ IsResponse(Last(s.outcomes))
                    /\ Last(s.outcomes).status >= 400
        clientError == Len(s.outcomes) >= 1 /\ ClientErrorResponse(Last(s.outcomes))
    IN  Raised(s) =>
          /\ e.name = "GridDBError"
          /\ answered =>
               /\ e.status = Some(Last(s.outcomes).status)
               /\ \/ e.details = JSString(s.responseText)
                  \/ e.details = UnderlyingError(Last(s.outcomes), s.responseText)
          /\ (Len(s.outcomes) >= 1 /\ ~clientError) =>
               e.details = UnderlyingError(Last(s.outcomes), s.responseText)
          /\ clientError =>
               /\ e.code = Some(Last(s.outcomes).status)
               /\ e.details = JSString(s.responseText)

\* C7 as amended: every error request raises for a remote failure is a
\* GridDBError.  Raised for a 4xx response it has status = code = the response
\* status and details = the raw body.  Raised because the attempts are
\* exhausted it has no status and no code of its own, and its details is the
\* last underlying error (undefined when no attempt was made); when the last
\* attempt was answered with a failure status, that underlying error is the
\* one that carries the status and the raw body.
C7_RaisedErrorShape ==
  \A c \in DOMAIN calls :
    LET s == calls[c]
        e == s.result.error
    IN  Raised(s) =>
          /\ e.name = "GridDBError"
          /\ IF Len(s.outcomes) >= 1 /\ ClientErrorResponse(Last(s.outcomes))
             THEN /\ e.status = Some(Last(s.outcomes).status)
                  /\ e.code = Some(Last(s.outcomes).status)
                  /\ e.details = JSString(s.responseText)
             ELSE /\ e.status = None
                  /\ e.code = None
                  /\ e.details = (IF Len(s.outcomes) = 0 THEN Undefined
                                  ELSE UnderlyingError(Last(s.outcomes), s.responseText))

C7_Witness ==
  \E c \in DOMAIN calls :
    /\ Raised(calls[c])
    /\ Len(calls[c].outcomes) = 2
    /\ IsResponse(calls[c].outcomes[2]) /\ calls[c].outcomes[2].status = 500
    /\ calls[c].responseText = MalformedBody
    /\ calls[c].result.error.status = None
    /\ calls[c].result.error.details.status = Some(500)

\* C8: containerExists returns true when the info endpoint answers with a
\* success status, false when it answers 404, which is not retried, and
\* raises for every other failure; it returns false for no other status.
C8_ContainerExists ==
  \A c \in DOMAIN calls :
    LET s == calls[c]
        n == Len(s.outcomes)
        notFound(o) == IsResponse(o) /\ o.status = 404
    IN  (s.op = "containerExists" /\ s.pc = "done") =>
          /\ (n >= 1 /\ SuccessResponse(s.outcomes[n]))
               <=> s.returned = Resolved(JSBoolean(TRUE))
          /\ (n >= 1 /\ notFound(s.outcomes[n]))
               <=> s.returned = Resolved(JSBoolean(FALSE))
          /\ (n >= 1 /\ notFound(s.outcomes[n])) => s.attempts = n
          /\ (n >= 1 /\ notFound(s.outcomes[1])) => s.attempts = 1
          /\ (n = 0 \/ ~(SuccessResponse(s.outcomes[n]) \/ notFound(s.outcomes[n])))
               => /\ s.returned.type = "rejected"
                  /\ s.returned = s.result

C8_Witness ==
  \E c \in DOMAIN calls :
    /\ calls[c].op = "containerExists"
    /\ calls[c].pc = "done"
    /\ retryAttempts >= 2
    /\ calls[c].attempts = 1
    /\ calls[c].outcomes = <<Outcome("response", 404)>>
    /\ calls[c].returned = Resolved(JSBoolean(FALSE))

\* C9: a 2xx response never makes request raise or retry on account of its
\* body: an empty body resolves to an empty object, a body that parses as
\* JSON to the parsed value, any other body to the raw text.
C9_LenientDecoding ==
  \A c \in DOMAIN calls :
    LET s == calls[c]
        n == Len(s.outcomes)
    IN  (n >= 1 /\ SuccessResponse(s.outcomes[n])) =>
          /\ s.pc = "done"
          /\ s.attempts = n
          /\ Len(s.delays) = n - 1
          /\ s.result.type = "resolved"
          /\ s.responseText = "" => s.result.value = EmptyObject
          /\ (s.responseText # "" /\ JSONparse(s.responseText).ok)
               => s.result.value = JSONparse(s.responseText).value
          /\ (s.responseText # "" /\ ~JSONparse(s.responseText).ok)
               => s.result.value = JSString(s.responseText)

C9_Witness ==
  \E c \in DOMAIN calls :
    /\ retryAttempts >= 2
    /\ calls[c].outcomes = <<Outcome("response", 200)>>
    /\ calls[c].responseText = MalformedBody
    /\ calls[c].result = Resolved(JSString(MalformedBody))

\* C10: every attempt of every call made without skipAuth is given the header
\* Authorization = "Basic " + base64(username:password), the same value for
\* all attempts and calls of the client whatever headers the caller supplies;
\* a call made with skipAuth gets no Authorization header from the executor.
C10_BasicAuthOnEveryAttempt ==
  LET credentials == config.username \o Colon \o config.password
      expected == <<"Basic ">> \o Base64(credentials)
  IN  /\ credentials = <<117, 58, 112>> => expected = <<"Basic ", "d", "T", "p", "w">>
      /\ credentials = <<116, 101, 58, 112>>
           => expected = <<"Basic ", "d", "G", "U", "6", "c", "A", "=", "=">>
      /\ authToken = Base64(credentials)
      /\ authSent \subseteq {expected}
      /\ \A c \in DOMAIN calls :
           LET s == calls[c]
           IN  /\ Len(s.sent) = s.attempts
               /\ \A i \in 1..Len(s.sent) :
                    IF ~s.skipAuth
                    THEN /\ "Authorization" \in DOMAIN s.sent[i]
                         /\ s.sent[i]["Authorization"] = expected
                    ELSE "Authorization" \in DOMAIN s.sent[i]
                           => /\ "Authorization" \in DOMAIN s.headers
                              /\ s.sent[i]["Authorization"] = s.headers["Authorization"]

C10_Witness ==
  \E c \in DOMAIN calls :
    /\ ncalls = 2
    /\ ~calls[c].skipAuth
    /\ "Authorization" \in DOMAIN calls[c].headers
    /\ Len(calls[c].sent) = 2
    /\ calls[c].sent[2]["Authorization"] = BasicAuth(authToken)
    /\ authSent = {BasicAuth(authToken)}

(***************************************************************************)
(* Construction as a specification of its own: a constructor is called     *)
(* once with an argument drawn from BaseInputs or CloudInputs.             *)
(***************************************************************************)
InvalidUrl == <<"i","n","v","a","l","i","d","-","u","r","l">>
UrlInputs ==
  { None, Some(<<>>), Some(InvalidUrl), Some(Http \o <<"x">>),
    Some(LocalUrl), Some(SecureUrl), Some(CloudUrl) }
FalsyNumbers == { Some(0) }

BaseInputs ==
  { [griddbWebApiUrl |-> url, username |-> u, password |-> p,
     timeout |-> t, retryDelay |-> d, retryAttempts |-> ra] :
      url \in UrlInputs, u \in {<<>>, <<117>>}, p \in {<<>>, <<112>>},
      t \in TimeoutInputs \cup FalsyNumbers, d \in RetryDelayInputs \cup FalsyNumbers,
      ra \in RetryAttemptsInputs }

CloudOnlyInputs ==
  { [cluster |-> cl, database |-> db, cloudRegion |-> rg, useSSL |-> ssl] :
      cl \in {<<>>, <<"c1">>}, db \in {<<>>, <<"db">>},
      rg \in {None, Some(<<>>), Some(<<"us-east-1">>)}, ssl \in {None, Some(FALSE)} }

CloudInputs == { extra @@ base : base \in BaseInputs, extra \in CloudOnlyInputs }

Unconstructed(kind, input) ==
  [kind |-> kind, input |-> input, pc |-> "new", outcome |-> Undefined]

ConstructInit ==
  /\ ctor \in { Unconstructed("GridDBClient", input) : input \in BaseInputs }
             \cup { Unconstructed("GridDBCloudClient", input) : input \in CloudInputs }
  /\ config = Undefined
  /\ authToken = <<>>
  /\ timeout = 0
  /\ retryAttempts = 0
  /\ retryDelay = 0
  /\ cloud = NotCloud
  /\ codec = NoCodecCall
  /\ batch = NoBatch
  /\ calls = [c \in Slots |-> NoCall]
  /\ logger = [c \in Slots |-> NoLogger]
  /\ Untouched
  /\ ncalls = 0
  /\ authSent = {}

\* the constructor call ends: the fields of the object it returned are set
Construct(outcome) ==
  /\ ctor' = [ctor EXCEPT !.pc = "done", !.outcome = outcome]
  /\ IF outcome.type = "client"
     THEN /\ config' = outcome.config
          /\ authToken' = outcome.authToken
          /\ timeout' = outcome.timeout
          /\ retryAttempts' = outcome.retryAttempts
          /\ retryDelay' = outcome.retryDelay
          /\ cloud' = CloudFields(outcome)
     ELSE UNCHANGED clientVars
  /\ UNCHANGED <<calls, ncalls, authSent, codec, batch, restVars>>

NewGridDBClient ==
  /\ ctor.pc = "new" /\ ctor.kind = "GridDBClient"
  /\ Construct(GridDBClient(ctor.input))

NewGridDBCloudClient ==
  /\ ctor.pc = "new" /\ ctor.kind = "GridDBCloudClient"
  /\ Construct(GridDBCloudClient(ctor.input))

ConstructNext == NewGridDBClient \/ NewGridDBCloudClient

ConstructSpec == ConstructInit /\ [][ConstructNext]_vars

\* the URL names the http or https scheme and something after it
AbsoluteHttpUrl(url) ==
  \/ StartsWith(url, Http \o <<":","/","/">>) /\ Len(url) > 7
  \/ StartsWith(url, HttpsScheme) /\ Len(url) > 8

\* the configurations that may not yield a client
InvalidConfig(kind, input) ==
  \/ input.griddbWebApiUrl = None
  \/ ~AbsoluteHttpUrl(input.griddbWebApiUrl[1])
  \/ input.username = <<>>
  \/ input.password = <<>>
  \/ /\ kind = "GridDBCloudClient"
     /\ \/ input.cluster = <<>>
        \/ input.database = <<>>
        \/ ~StartsWith(input.griddbWebApiUrl[1], HttpsScheme)

\* C11: a constructor given a missing, empty or non-http(s) URL, an empty
\* username or password, or (cloud) an empty cluster or database or a URL
\* not starting with https://, throws a GridDBError and returns no client;
\* no constructor call makes a network call.
C11_InvalidConfigRejected ==
  ctor.pc = "done" =>
    /\ InvalidConfig(ctor.kind, ctor.input) =>
          /\ ctor.outcome.type = "thrown"
          /\ InstanceOfGridDBError(ctor.outcome.error)
    /\ ncalls = 0
    /\ \A c \in DOMAIN calls : calls[c] = NoCall

\* the value the constructor is to use for an optional number
Configured(opt, default) == IF opt = None THEN default ELSE opt[1]

\* C12: the client uses the timeout, retryAttempts and retryDelay of its
\* configuration when they are given, and 30000 / 3 / 1000 (cloud client:
\* 60000 / 5 / 2000) when they are not.
C12_ConfiguredOrDefault ==
  (ctor.pc = "done" /\ ctor.outcome.type = "client") =>
    LET isCloud == ctor.kind = "GridDBCloudClient"
    IN  /\ timeout = Configured(ctor.input.timeout,
                        IF isCloud THEN DefaultCloudTimeout ELSE DefaultTimeout)
        /\ retryAttempts = Configured(ctor.input.retryAttempts,
                        IF isCloud THEN DefaultCloudRetryAttempts ELSE DefaultRetryAttempts)
        /\ retryDelay = Configured(ctor.input.retryDelay,
                        IF isCloud THEN DefaultCloudRetryDelay ELSE DefaultRetryDelay)

(***************************************************************************)
(* The request executor of a GridDBCloudClient: the same calls and the     *)
(* same environment, on a client built by new GridDBCloudClient(input).    *)
(***************************************************************************)
CloudConfigInputs ==
  { [griddbWebApiUrl |-> Some(CloudUrl), username |-> <<117>>, password |-> <<112>>,
     timeout |-> None, retryDelay |-> None, retryAttempts |-> Some(ra),
     cluster |-> <<"test-cluster">>, database |-> <<"test-db">>,
     cloudRegion |-> rg, useSSL |-> None] :
      ra \in 1..2, rg \in {None, Some(<<>>), Some(<<"us-west-2">>)} }

CloudInit ==
  \E input \in CloudConfigInputs :
    LET this == GridDBCloudClient(input)
    IN  /\ this.type = "client"
        /\ config = this.config
        /\ authToken = this.authToken
        /\ timeout = this.timeout
        /\ retryAttempts = this.retryAttempts
        /\ retryDelay = this.retryDelay
        /\ cloud = CloudFields(this)
        /\ ctor = Constructed("GridDBCloudClient", input, this)
        /\ codec = NoCodecCall
        /\ batch = NoBatch
        /\ calls = [c \in Slots |-> NoCall]
        /\ logger = [c \in Slots |-> NoLogger]
        /\ Untouched
        /\ ncalls = 0
        /\ authSent = {}

CloudSpec == CloudInit /\ [][Next]_vars

RegionConfigured == cloud.cloudRegion # None /\ cloud.cloudRegion[1] # <<>>

\* C13 as stated: every attempt of every call on a cloud client carries
\* X-GridDB-Cluster and X-GridDB-Database equal to the configured cluster and
\* database, X-GridDB-Region exactly when a region is configured, and every
\* header the caller supplied.
C13_FixedCloudHeaders ==
  cloud.isCloud =>
    \A c \in DOMAIN calls : \A i \in 1..Len(calls[c].sent) :
      LET h == calls[c].sent[i]
      IN  /\ "X-GridDB-Cluster" \in DOMAIN h /\ h["X-GridDB-Cluster"] = cloud.cluster
          /\ "X-GridDB-Database" \in DOMAIN h /\ h["X-GridDB-Database"] = cloud.database
          /\ ("X-GridDB-Region" \in DOMAIN h) <=> RegionConfigured
          /\ "X-GridDB-Region" \in DOMAIN h => h["X-GridDB-Region"] = cloud.cloudRegion[1]
          /\ \A k \in DOMAIN calls[c].headers \ {"Authorization"} :
                k \in DOMAIN h

\* C13: every attempt of every call on a cloud client carries each header the
\* caller supplied, with the caller's value (Authorization excepted, which the
\* executor sets); X-GridDB-Cluster and X-GridDB-Database with the configured
\* values unless the caller supplied a header of that name; and
\* X-GridDB-Region exactly when a non-empty region is configured or the
\* caller supplied one, with the configured value unless the caller's.
C13_CloudHeadersUnlessOverridden ==
  cloud.isCloud =>
    \A c \in DOMAIN calls :
      /\ Len(calls[c].sent) = calls[c].attempts
      /\ \A i \in 1..Len(calls[c].sent) :
           LET h == calls[c].sent[i]
               given == calls[c].headers
               Carries(k, v) == k \in DOMAIN h /\ h[k] = v
           IN  /\ \A k \in DOMAIN given :
                     k # "Authorization" \/ calls[c].skipAuth => Carries(k, given[k])
               /\ "X-GridDB-Cluster" \notin DOMAIN given
                     => Carries("X-GridDB-Cluster", cloud.cluster)
               /\ "X-GridDB-Database" \notin DOMAIN given
                     => Carries("X-GridDB-Database", cloud.database)
               /\ "X-GridDB-Region" \notin DOMAIN given =>
                     IF RegionConfigured
                     THEN Carries("X-GridDB-Region", cloud.cloudRegion[1])
                     ELSE "X-GridDB-Region" \notin DOMAIN h

\* a helper call without headers, retried, and a request whose caller names a
\* cloud header, on a client with a region
C13_Witness ==
  /\ cloud.isCloud /\ RegionConfigured
  /\ \E c \in DOMAIN calls :
       /\ ncalls = 2
       /\ calls[c].op = "request"
       /\ "X-GridDB-Cluster" \in DOMAIN calls[c].headers
       /\ Len(calls[c].sent) = 2
       /\ calls[c].sent[2]["X-GridDB-Cluster"] = <<"other">>
       /\ calls[c].sent[2]["X-GridDB-Database"] = <<"test-db">>

(***************************************************************************)
(* The functions of utils/transformers as a specification of their own:    *)
(* one function is called with arguments drawn from the sets below; an     *)
(* encoded row can then be decoded with the names of its schema.           *)
(***************************************************************************)
KeyPool == { <<"i","d">>, <<"t","s">>, <<"7">> }       \* "id", "ts", "7"

LeapDayInstant == JSDate(DaysFromCivil(2024, 2, 29), 86399999)
IsoText == <<"2","0","2","4","-","0","2","-","2","9","T","2","3",":","5","9",":","5","9",".","9","9","9","Z">>
Abc == <<"a","b","c">>

\* values of the properties of rows
RowValues ==
  { Null, JSInt(42), JSString(Abc), LeapDayInstant, JSBuffer(<<104, 105>>) }
RowColumnTypes == { "INTEGER", "STRING", "TIMESTAMP", "BLOB" }

\* sequences of at most n pairs <<name, x>> with name in `names` and x in S,
\* no name twice
RECURSIVE Named(_, _, _)
Named(names, S, n) ==
  IF n = 0 THEN { <<>> }
  ELSE LET shorter == Named(names, S, n - 1)
           longest == { r \in shorter : Len(r) = n - 1 }
           Unused(q) == names \ { q[i][1] : i \in DOMAIN q }
       IN  shorter \cup
           UNION { { Append(q, <<name, x>>) : name \in Unused(q), x \in S } :
                   q \in longest }

\* keyed rows: up to maxKeys properties with different keys
KeyedRows(maxKeys) == { JSObject(props) : props \in Named(KeyPool, RowValues, maxKeys) }

Rows(maxKeys) == KeyedRows(maxKeys) \cup { Null, JSArray(<<JSInt(1), JSString(Abc)>>) }

\* schemas: up to maxColumns descriptors with different names; or no schema
Schemas(maxColumns) ==
  { JSArray([i \in DOMAIN q |-> [name |-> q[i][1], type |-> q[i][2]]]) :
      q \in Named(KeyPool, RowColumnTypes, maxColumns) }
  \cup { NoSchema }

ColumnNames(containerSchema) ==
  JSArray([i \in DOMAIN containerSchema.items |-> containerSchema.items[i].name])

\* values and column types of the scalar conversions
ScalarValues ==
  { Null, Undefined, JSInt(0), JSInt(42), JSNumber(3, 5), JSNumber(-2, 7), NaN,
    JSString(<<>>), JSString(<<"4","2">>), JSString(<<"1","2","a","b","c">>),
    JSString(<<"3",".","5">>), JSString(Abc), JSString(IsoText),
    JSBoolean(TRUE), JSBoolean(FALSE),
    LeapDayInstant, JSDate(0, 0), InvalidDate,
    JSBuffer(<<104, 105>>), JSBuffer(<<>>) }
ColumnTypes ==
  { "INTEGER", "LONG", "DOUBLE", "FLOAT", "STRING", "BOOL", "BOOLEAN",
    "TIMESTAMP", "timestamp", "BLOB", "GEOMETRY" }

\* conversions whose result is the same in every engine: new Date(text) of a
\* text that starts with a digit without being an ISO date-time is left out
Portable(value, columnType) ==
  toUpperCase(columnType) = "TIMESTAMP" /\ value.type = "string"
    => value.value = <<>> \/ ~IsDigit(value.value[1]) \/ IsIsoDateTime(value.value)

\* options of buildSelectQuery
SelectInputs ==
  { [containerName |-> <<"u","s","e","r","s">>, columns |-> columns, where |-> where,
     bindings |-> bindings, limit |-> limit, offset |-> offset,
     orderBy |-> orderBy, order |-> order] :
      columns \in { None, Some(<<>>), Some(<< <<"i","d">> >>), Some(<< <<"i","d">>, <<"n","a","m","e">> >>) },
      where \in { None, Some(<<>>), Some(<<"a","g","e"," ",">"," ","?">>) },
      bindings \in { None, Some(<<JSInt(18)>>), Some(<<JSInt(18), JSString(<<"a","c","t","i","v","e">>)>>) },
      limit \in { None, Some(0), Some(5) },
      offset \in { None, Some(0), Some(10) },
      orderBy \in { None, Some(<<>>), Some(<<"n","a","m","e">>) },
      order \in { None, Some(Desc) } }

CodecCalls(maxKeys, maxColumns) ==
  { [op |-> "transformRowToArray", pc |-> "call", row |-> row, schema |-> schema,
     result |-> Undefined, decoded |-> Undefined, warnings |-> 0] :
      row \in Rows(maxKeys), schema \in Schemas(maxColumns) }
  \cup
  { [op |-> "convertToGridDBType", pc |-> "call", value |-> input[1],
     columnType |-> input[2], result |-> Undefined] :
      input \in { in \in ScalarValues \X ColumnTypes : Portable(in[1], in[2]) } }
  \cup
  { [op |-> "toGridDBValue", pc |-> "call", value |-> value, result |-> Undefined] :
      value \in ScalarValues }
  \cup
  { [op |-> "fromGridDBValue", pc |-> "call", value |-> input[1],
     columnType |-> input[2], result |-> Undefined] :
      input \in { in \in ScalarValues \X {"TIMESTAMP", "timestamp", "BLOB", "STRING"} :
                    Portable(in[1], in[2]) } }
  \cup
  { [op |-> "buildSelectQuery", pc |-> "call", options |-> options,
     result |-> Undefined] : options \in SelectInputs }

TransformersInit ==
  /\ codec \in CodecCalls(MaxKeys, MaxColumns)
  /\ config = Undefined
  /\ authToken = <<>>
  /\ timeout = 0
  /\ retryAttempts = 0
  /\ retryDelay = 0
  /\ cloud = NotCloud
  /\ ctor = Unconstructed("none", Undefined)
  /\ batch = NoBatch
  /\ calls = [c \in Slots |-> NoCall]
  /\ logger = [c \in Slots |-> NoLogger]
  /\ Untouched
  /\ ncalls = 0
  /\ authSent = {}

\* the call of a function ends with `result`
Finish(op, result) ==
  /\ codec.op = op
  /\ codec.pc = "call"
  /\ codec' = [codec EXCEPT !.result = result,
                            !.pc = IF result.type = "thrown" THEN "thrown" ELSE "returned"]
  /\ UNCHANGED <<clientVars, ctor, calls, ncalls, authSent, batch, restVars>>

TransformRowToArray ==
  /\ codec.op = "transformRowToArray"
  /\ codec.pc = "call"
  /\ LET result == transformRowToArray(codec.row, codec.schema)
     IN  codec' = [codec EXCEPT
                    !.result = result,
                    !.pc = IF result.type = "thrown" THEN "thrown" ELSE "returned",
                    !.warnings = @ + RowToArrayWarnings(codec.row, codec.schema)]
  /\ UNCHANGED <<clientVars, ctor, calls, ncalls, authSent, batch, restVars>>

\* the encoded row is decoded with the names of the schema it was encoded with
TransformArrayToRow ==
  /\ codec.op = "transformRowToArray"
  /\ codec.pc = "returned"
  /\ codec.schema # NoSchema
  /\ codec' = [codec EXCEPT
                 !.decoded = transformArrayToRow(codec.result.value,
                                                 ColumnNames(codec.schema)),
                 !.pc = "decoded"]
  /\ UNCHANGED <<clientVars, ctor, calls, ncalls, authSent, batch, restVars>>

ConvertToGridDBType ==
  Finish("convertToGridDBType", convertToGridDBType(codec.value, codec.columnType))

ToGridDBValue == Finish("toGridDBValue", Returned(toGridDBValue(codec.value)))

FromGridDBValue ==
  Finish("fromGridDBValue", Returned(fromGridDBValue(codec.value, codec.columnType)))

BuildSelectQuery == Finish("buildSelectQuery", Returned(buildSelectQuery(codec.options)))

TransformersNext ==
  \/ TransformRowToArray
  \/ TransformArrayToRow
  \/ ConvertToGridDBType
  \/ ToGridDBValue
  \/ FromGridDBValue
  \/ BuildSelectQuery

TransformersSpec == TransformersInit /\ [][TransformersNext]_vars

(***************************************************************************)
(* Properties of the row codec.                                            *)
(***************************************************************************)
\* transformRowToArray was called on a keyed row and has ended
EncodedKeyedRow ==
  /\ codec.op = "transformRowToArray"
  /\ codec.pc \in {"returned", "thrown", "decoded"}
  /\ codec.row.type = "object"

\* the coercion of the declared type does not return for this value: the
\* TIMESTAMP case given a non-Date from which no valid Date is constructed
CoercionRaises(value, columnType) ==
  /\ toUpperCase(columnType) = "TIMESTAMP"
  /\ value.type \notin {"null", "undefined", "date"}
  /\ ~NewDate(value).valid

\* one value per descriptor, in descriptor order: the coerced row value of
\* the descriptor's name, null for a name the row does not have
OnePerDescriptor(row, columns, items) ==
  /\ Len(items) = Len(columns)
  /\ \A i \in DOMAIN columns :
       IF ~HasKey(row.props, columns[i].name) THEN items[i] = Null
       ELSE items[i] = convertToGridDBType(Get(row.props, columns[i].name),
                                           columns[i].type).value

\* C14 as stated: for every keyed row and every supplied schema, of any
\* number of descriptors, transformRowToArray returns exactly one value per
\* descriptor, in descriptor order: the coerced row value of that name, null
\* for a missing key; row keys the schema does not name do not appear.
C14_OneValuePerDescriptor ==
  (EncodedKeyedRow /\ codec.schema # NoSchema) =>
    /\ codec.result.type = "returned"
    /\ OnePerDescriptor(codec.row, codec.schema.items, codec.result.value.items)

\* C14: for every keyed row and every supplied schema with at least one
\* descriptor, transformRowToArray raises when the coercion of some
\* descriptor raises, and otherwise returns exactly one value per
\* descriptor, in descriptor order, without a warning; with a schema of no
\* descriptors it warns and returns the generic encoding of all row values.
C14_OneValuePerDescriptorOrRaises ==
  (EncodedKeyedRow /\ codec.schema # NoSchema) =>
    LET columns == codec.schema.items
        props == codec.row.props
    IN  IF columns = <<>>
        THEN /\ codec.result.type = "returned"
             /\ codec.warnings = 1
             /\ codec.result.value.items =
                  [i \in DOMAIN props |-> toGridDBValue(ObjectValues(props)[i])]
        ELSE IF \E i \in DOMAIN columns :
                  CoercionRaises(Get(props, columns[i].name), columns[i].type)
        THEN codec.result = Thrown(RangeError)
        ELSE /\ codec.result.type = "returned"
             /\ codec.warnings = 0
             /\ OnePerDescriptor(codec.row, columns, codec.result.value.items)

\* a row {id: 42, "7": "abc"} encoded with the schema [ts TIMESTAMP, id INTEGER]
C14_Witness ==
  /\ EncodedKeyedRow
  /\ codec.row.props = << << <<"i","d">>, JSInt(42) >>, << <<"7">>, JSString(Abc) >> >>
  /\ codec.schema # NoSchema
  /\ codec.schema.items = << [name |-> <<"t","s">>, type |-> "TIMESTAMP"],
                             [name |-> <<"i","d">>, type |-> "INTEGER"] >>
  /\ codec.result = Returned(JSArray(<<Null, JSInt(42)>>))

\* transformRowToArray was called on a keyed row without a schema and has ended
EncodedWithoutSchema == EncodedKeyedRow /\ codec.schema = NoSchema

\* C15 as stated: encoding a keyed row without a schema never raises, warns,
\* and returns one value per key of the row, in the insertion order of the
\* keys, each after the generic coercion.
C15_GenericInInsertionOrder ==
  EncodedWithoutSchema =>
    /\ codec.result.type = "returned"
    /\ codec.warnings = 1
    /\ Len(codec.result.value.items) = Len(codec.row.props)
    /\ \A i \in DOMAIN codec.row.props :
         codec.result.value.items[i] = toGridDBValue(codec.row.props[i][2])

\* positions of the row's keys that are array indices, and of the others
IndexKeys(props) == { i \in DOMAIN props : IsArrayIndex(props[i][1]) }
OtherKeys(props) == DOMAIN props \ IndexKeys(props)
\* the place of the property at position i among the values of the row:
\* array-index keys first, ascending; then the other keys as inserted
PlaceOf(props, i) ==
  IF i \in IndexKeys(props)
  THEN 1 + Cardinality({ j \in IndexKeys(props) :
                          ParseDigits(props[j][1]) < ParseDigits(props[i][1]) })
  ELSE Cardinality(IndexKeys(props)) + 1
         + Cardinality({ j \in OtherKeys(props) : j < i })

\* C15: encoding a keyed row without a schema never raises, warns once, and
\* returns one value per key of the row, each after the generic coercion
\* (null and undefined give null, a valid Date its ISO-8601 text, an invalid
\* Date null, a Buffer its base64 text, anything else itself), in the order
\* in which the engine enumerates the keys: keys that are array indices
\* first, ascending, then the other keys in insertion order.  toGridDBValue
\* itself returns these values: the leap-day instant its text, the bytes
\* "hi" the text "aGk=".
C15_GenericInEnumerationOrder ==
  /\ EncodedWithoutSchema =>
       /\ codec.result.type = "returned"
       /\ codec.warnings = 1
       /\ Len(codec.result.value.items) = Len(codec.row.props)
       /\ \A i \in DOMAIN codec.row.props :
            codec.result.value.items[PlaceOf(codec.row.props, i)]
              = toGridDBValue(codec.row.props[i][2])
       /\ IndexKeys(codec.row.props) = {} =>
            \A i \in DOMAIN codec.row.props :
              codec.result.value.items[i] = toGridDBValue(codec.row.props[i][2])
  /\ (codec.op = "toGridDBValue" /\ codec.pc # "call") =>
       /\ codec.pc = "returned"
       /\ codec.value.type \in {"null", "undefined"} => codec.result.value = Null
       /\ codec.value = InvalidDate => codec.result.value = Null
       /\ codec.value = LeapDayInstant => codec.result.value = JSString(IsoText)
       /\ codec.value = JSDate(0, 0) =>
            codec.result.value = JSString(<<"1","9","7","0","-","0","1","-","0","1","T","0","0",":","0","0",":","0","0",".","0","0","0","Z">>)
       /\ codec.value = JSBuffer(<<104, 105>>) =>
            codec.result.value = JSString(<<"a","G","k","=">>)
       /\ codec.value.type \notin {"null", "undefined", "date", "buffer"} =>
            codec.result.value = codec.value

\* the row {id: a Date, "7": a Buffer} encoded without a schema
C15_Witness ==
  /\ EncodedWithoutSchema
  /\ codec.row.props = << << <<"i","d">>, LeapDayInstant >>,
                          << <<"7">>, JSBuffer(<<104, 105>>) >> >>
  /\ codec.result =
       Returned(JSArray(<< JSString(<<"a","G","k","=">>), JSString(IsoText) >>))
  /\ codec.warnings = 1

\* the value denotes an instant: a valid Date, or what new Date makes one of
DenotesInstant(value) ==
  IF value.type = "date" THEN value.valid
  ELSE value.type \notin {"null", "undefined"} /\ NewDate(value).valid

\* C16 as stated: encoding a value for a TIMESTAMP column never raises; a
\* valid date/time value gives its UTC ISO-8601 text, and every input that
\* denotes no valid instant (an invalid Date, a non-date from which no valid
\* Date is constructed) gives null.
C16_TimestampNeverRaises ==
  (/\ codec.op = "convertToGridDBType"
   /\ codec.pc # "call"
   /\ toUpperCase(codec.columnType) = "TIMESTAMP") =>
     /\ codec.result.type = "returned"
     /\ IF DenotesInstant(codec.value)
        THEN codec.result.value =
               JSString(toISOString(IF codec.value.type = "date"
                                    THEN codec.value ELSE NewDate(codec.value)))
        ELSE codec.result.value = Null

\* the value is of the declared type, in the form the wire keeps: null, an
\* integer for INTEGER and LONG, a number for DOUBLE and FLOAT, a string for
\* STRING, a boolean for BOOL and BOOLEAN, a valid Date for TIMESTAMP, (base64)
\* text for BLOB
Representable(value, columnType) ==
  LET type == toUpperCase(columnType)
  IN  \/ value = Null
      \/ type \in {"INTEGER", "LONG"} /\ value.type = "number" /\ value.tenths = 0
      \/ type \in {"DOUBLE", "FLOAT"} /\ value.type = "number"
      \/ type = "STRING" /\ value.type = "string"
      \/ type \in {"BOOL", "BOOLEAN"} /\ value.type = "boolean"
      \/ type = "TIMESTAMP" /\ value.type = "date" /\ value.valid
      \/ type = "BLOB" /\ value.type = "string"

\* the schema matches the row: every column the row has a value for holds a
\* value of the declared type
Matching(row, columns) ==
  \A i \in DOMAIN columns :
    HasKey(row.props, columns[i].name)
      => Representable(Get(row.props, columns[i].name), columns[i].type)

\* what came back for a value that went in under the declared type
SameAfterRoundTrip(value, columnType, back) ==
  IF toUpperCase(columnType) = "TIMESTAMP" /\ value # Null
  THEN /\ back.type = "string"
       /\ fromGridDBValue(back, "TIMESTAMP") = value
  ELSE back = value

\* C17: for every keyed row and schema matching it, transformRowToArray
\* returns, and transformArrayToRow of its result with the names of the
\* schema maps every column the row has to the row's value for it, a
\* timestamp coming back as text that fromGridDBValue with type TIMESTAMP
\* turns into the same instant; each coercion alone does the same.
C17_RoundTrip ==
  /\ (/\ EncodedKeyedRow
      /\ codec.schema # NoSchema
      /\ Matching(codec.row, codec.schema.items)) =>
        /\ codec.pc # "thrown"
        /\ codec.pc = "decoded" =>
             \A i \in DOMAIN codec.schema.items :
               LET column == codec.schema.items[i]
               IN  HasKey(codec.row.props, column.name) =>
                     /\ HasKey(codec.decoded.props, column.name)
                     /\ SameAfterRoundTrip(Get(codec.row.props, column.name), column.type,
                                           Get(codec.decoded.props, column.name))
  /\ (/\ codec.op = "convertToGridDBType"
      /\ codec.pc # "call"
      /\ Representable(codec.value, codec.columnType)) =>
        /\ codec.result.type = "returned"
        /\ SameAfterRoundTrip(codec.value, codec.columnType, codec.result.value)

\* the row {ts: a Date, id: 42} through the schema [id INTEGER, ts TIMESTAMP]
C17_Witness ==
  /\ EncodedKeyedRow
  /\ codec.pc = "decoded"
  /\ codec.row.props = << << <<"t","s">>, LeapDayInstant >>, << <<"i","d">>, JSInt(42) >> >>
  /\ codec.schema.items = << [name |-> <<"i","d">>, type |-> "INTEGER"],
                             [name |-> <<"t","s">>, type |-> "TIMESTAMP"] >>
  /\ codec.decoded =
       JSObject(<< << <<"i","d">>, JSInt(42) >>, << <<"t","s">>, JSString(IsoText) >> >>)
  /\ fromGridDBValue(JSString(IsoText), "TIMESTAMP") = LeapDayInstant

(***************************************************************************)
(* Properties of buildSelectQuery.                                         *)
(***************************************************************************)
BuiltQuery == codec.op = "buildSelectQuery" /\ codec.pc = "returned"

Clause(present, text) == IF present THEN text ELSE <<>>

\* 'SELECT <columns or *> FROM <container>', then the clauses for which
\* `has` holds, in the order WHERE, ORDER BY, LIMIT, OFFSET
SelectText(options, has) ==
  KwSelect
    \o (IF options.columns = None \/ options.columns[1] = <<>> THEN Star
        ELSE Join(options.columns[1], CommaSpace))
    \o KwFrom \o options.containerName
    \o Clause(has.where, KwWhere \o options.where[1])
    \o Clause(has.orderBy,
              KwOrderBy \o options.orderBy[1] \o Space
                \o (IF options.order = None THEN Asc ELSE options.order[1]))
    \o Clause(has.limit, KwLimit \o Decimal(options.limit[1]))
    \o Clause(has.offset, KwOffset \o Decimal(options.offset[1]))

\* C18 as stated: the statement is 'SELECT <columns joined by ", " or *> FROM
\* <container>' followed, in this order, by the WHERE, ORDER BY (order ASC by
\* default), LIMIT and OFFSET clauses, each present exactly when its option
\* is supplied; the bindings are returned unchanged and are not part of the
\* statement.
C18_ClausePerSuppliedOption ==
  BuiltQuery =>
    LET options == codec.options
    IN  /\ codec.result.value.stmt =
             SelectText(options, [where |-> options.where # None,
                                  orderBy |-> options.orderBy # None,
                                  limit |-> options.limit # None,
                                  offset |-> options.offset # None])
        /\ codec.result.value.bindings = options.bindings

\* C18: as stated, with the WHERE and ORDER BY clauses present exactly when
\* their option is supplied and not the empty text, and the LIMIT and OFFSET
\* clauses exactly when their option is supplied, 0 included.  The options
\* of the full example give the text of the example.
C18_ClausePerNonEmptyOption ==
  BuiltQuery =>
    LET options == codec.options
    IN  /\ codec.result.value.type = "sql-select"
        /\ codec.result.value.stmt =
             SelectText(options,
                        [where |-> options.where # None /\ options.where[1] # <<>>,
                         orderBy |-> options.orderBy # None /\ options.orderBy[1] # <<>>,
                         limit |-> options.limit # None,
                         offset |-> options.offset # None])
        /\ codec.result.value.bindings = options.bindings
        /\ (/\ options.columns = Some(<< <<"i","d">>, <<"n","a","m","e">> >>)
            /\ options.where = Some(<<"a","g","e"," ",">"," ","?">>)
            /\ options.orderBy = Some(<<"n","a","m","e">>) /\ options.order = Some(Desc)
            /\ options.limit = Some(5) /\ options.offset = Some(10)) =>
              codec.result.value.stmt =
                <<"S","E","L","E","C","T"," ","i","d",","," ","n","a","m","e"," ","F","R","O",
                   "M"," ","u","s","e","r","s"," ","W","H","E","R","E"," ","a","g","e"," ",">",
                   " ","?"," ","O","R","D","E","R"," ","B","Y"," ","n","a","m","e"," ","D","E",
                   "S","C"," ","L","I","M","I","T"," ","5"," ","O","F","F","S","E","T"," ","1",
                   "0">>

\* bindings given, where and orderBy given, order defaulted, limit 0
C18_Witness ==
  /\ BuiltQuery
  /\ codec.options.bindings = Some(<<JSInt(18), JSString(<<"a","c","t","i","v","e">>)>>)
  /\ codec.options.where = Some(<<"a","g","e"," ",">"," ","?">>)
  /\ codec.options.limit = Some(0)
  /\ codec.options.order = None
  /\ codec.result.value.stmt =
       <<"S","E","L","E","C","T"," ","*"," ","F","R","O","M"," ","u","s","e","r","s"," ","W",
          "H","E","R","E"," ","a","g","e"," ",">"," ","?"," ","O","R","D","E","R"," ","B","Y",
          " ","n","a","m","e"," ","A","S","C"," ","L","I","M","I","T"," ","0"," ","O","F","F",
          "S","E","T"," ","1","0">>
  /\ codec.result.value.bindings = codec.options.bindings

(***************************************************************************)
(* CRUDOperations.batchInsert (cloud-client.ts 413-444) on a client whose  *)
(* request() the environment resolves or rejects.  One step is the code    *)
(* between two awaits: from a settled write to the next write or the       *)
(* return.                                                                 *)
(***************************************************************************)
DefaultBatchSize == 100

\* the row {id: k}
RowOf(k) == JSObject(<< << <<"i","d">>, JSInt(k) >> >>)
DataInputs == { [k \in 1..n |-> RowOf(k)] : n \in 0..MaxRows }
BatchSizeInputs == { None } \cup { Some(b) : b \in 1..MaxBatchSize }

\* what request() is rejected with: an Error, or a value that is no Error
BatchFailed ==
  [name |-> "Error", message |-> <<"Batch failed">>,
   code |-> None, status |-> None, details |-> Undefined]
RejectionReasons == { BatchFailed, JSString("boom") }
\* error instanceof Error
InstanceOfError(error) == "name" \in DOMAIN error

\* data.slice(start, end), indices counted from 0: a negative index counts
\* from the end, and both are clamped to 0..data.length
Slice(data, start, end) ==
  LET Relative(k) == IF k < 0
                     THEN (IF Len(data) + k < 0 THEN 0 ELSE Len(data) + k)
                     ELSE (IF k < Len(data) THEN k ELSE Len(data))
  IN  SubSeq(data, Relative(start) + 1, Relative(end))

\* The record of the writes made keeps the last MaxWrites of them, which is
\* all of them when the chunk size is positive.
MaxWrites == MaxRows
MaxErrors == MaxRows
Kept(writes) ==
  IF Len(writes) > MaxWrites THEN SubSeq(writes, Len(writes) - MaxWrites + 1, Len(writes))
  ELSE writes

\* i += batchSize.  Every i below -data.length selects the same empty slice
\* and passes the loop test, and the model keeps one of them.
NextIndex(s) ==
  IF s.i + s.batchSize < 0 - Len(s.data) - 1 THEN s.i ELSE s.i + s.batchSize

\* insert (lines 396-408) up to its await: the rows encoded without a schema
\* (which never raises) and the request made with them
InsertCall(index, rows, updateIfExists) ==
  [index |-> index,
   size |-> Len(rows),
   method |-> IF updateIfExists THEN "PUT" ELSE "POST",
   body |-> JSArray([k \in DOMAIN rows |-> transformRowToArray(rows[k], NoSchema).value]),
   state |-> "pending"]

\* the write of the chunk after this one is issued together with it
NextChunk_TwoAtOnce(s) ==
  IF s.i < Len(s.data)
  THEN LET first == InsertCall(s.i, Slice(s.data, s.i, s.i + s.batchSize), TRUE)
           second == InsertCall(s.i + s.batchSize,
                                Slice(s.data, s.i + s.batchSize,
                                      s.i + 2 * s.batchSize), TRUE)
       IN  [s EXCEPT !.pc = "await",
                     !.writes = IF s.i + s.batchSize < Len(s.data)
                                THEN @ \o <<first, second>> ELSE Append(@, first)]
  ELSE [s EXCEPT !.pc = "done", !.returned = Resolved(s.result)]

\* the loop test of line 424, then lines 425-431 up to the await, or line 443
NextChunk(s) ==
  IF s.i < Len(s.data)
  THEN LET chunk == Slice(s.data, s.i, s.i + s.batchSize)
       IN  [s EXCEPT !.pc = "await",
                     !.writes = Kept(Append(@, InsertCall(s.i, chunk, TRUE)))]
  ELSE [s EXCEPT !.pc = "done", !.returned = Resolved(s.result)]

\* the catch block returns the result at once
OnRejected_Returns(s, k, error) ==
  LET message == IF InstanceOfError(error) THEN error.message ELSE <<"Unknown error">>
      result == [s.result EXCEPT
                   !.failed = @ + s.writes[k].size,
                   !.errors = Append(@, [index |-> s.i, error |-> message])]
  IN  [s EXCEPT !.writes[k].state = "rejected", !.result = result,
                !.pc = "done", !.returned = Resolved(result)]

\* lines 433-439, i += batchSize, and on with the loop
OnRejected(s, k, error) ==
  LET message == IF InstanceOfError(error) THEN error.message ELSE <<"Unknown error">>
  IN  NextChunk([s EXCEPT
                   !.writes[k].state = "rejected",
                   !.result.failed = @ + s.writes[k].size,
                   !.result.errors = Append(@, [index |-> s.i, error |-> message]),
                   !.i = NextIndex(s)])

\* line 432, i += batchSize, and on with the loop
OnResolved(s, k) ==
  NextChunk([s EXCEPT !.writes[k].state = "resolved",
                      !.result.succeeded = @ + s.writes[k].size,
                      !.i = NextIndex(s)])

BatchCalls(sizes) ==
  { [pc |-> "call", data |-> data, batchSizeArg |-> batchSize,
     batchSize |-> 0, i |-> 0,
     result |-> [succeeded |-> 0, failed |-> 0, errors |-> <<>>],
     writes |-> <<>>, returned |-> Undefined] :
      data \in DataInputs, batchSize \in sizes }

BatchStart(sizes) ==
  /\ batch \in BatchCalls(sizes)
  /\ codec = NoCodecCall
  /\ config = Undefined
  /\ authToken = <<>>
  /\ timeout = DefaultTimeout
  /\ retryAttempts = DefaultRetryAttempts
  /\ retryDelay = DefaultRetryDelay
  /\ cloud = NotCloud
  /\ ctor = Unconstructed("none", Undefined)
  /\ calls = [c \in Slots |-> NoCall]
  /\ logger = [c \in Slots |-> NoLogger]
  /\ Untouched
  /\ ncalls = 0
  /\ authSent = {}

BatchInit == BatchStart(BatchSizeInputs)

BatchUnchanged == UNCHANGED <<clientVars, ctor, calls, ncalls, authSent, codec, restVars>>

\* batchInsert(containerName, data, batchSize) up to its first await
BatchInsert ==
  /\ batch.pc = "call"
  /\ batch' = NextChunk([batch EXCEPT
                           !.batchSize = IF batch.batchSizeArg = None
                                         THEN DefaultBatchSize
                                         ELSE batch.batchSizeArg[1]])
  /\ BatchUnchanged

\* the request of a write resolves
WriteResolve ==
  /\ batch.pc = "await"
  /\ \E k \in DOMAIN batch.writes :
       /\ batch.writes[k].state = "pending"
       /\ batch' = OnResolved(batch, k)
  /\ BatchUnchanged

\* the request of a write rejects
WriteReject ==
  /\ batch.pc = "await"
  /\ Len(batch.result.errors) < MaxErrors
  /\ \E k \in DOMAIN batch.writes, error \in RejectionReasons :
       /\ batch.writes[k].state = "pending"
       /\ batch' = OnRejected(batch, k, error)
  /\ BatchUnchanged

BatchNext == BatchInsert \/ WriteResolve \/ WriteReject

BatchSpec == BatchInit /\ [][BatchNext]_vars

\* batchInsert called with any chunk size, 0 and negative ones too.  A write
\* that was made settles: request() returns or raises.
AnyBatchSizeInputs == BatchSizeInputs \cup { Some(0), Some(0 - 1) }
AnyBatchSizeInit == BatchStart(AnyBatchSizeInputs)
AnyBatchSizeSpec ==
  /\ AnyBatchSizeInit
  /\ [][BatchNext]_vars
  /\ WF_vars(BatchInsert)
  /\ WF_vars(WriteResolve \/ WriteReject)

(***************************************************************************)
(* Properties of batchInsert                                               *)
(***************************************************************************)
\* the chunk size the call was made with: the argument, or its default
ChunkSize ==
  IF batch.batchSizeArg = None THEN DefaultBatchSize ELSE batch.batchSizeArg[1]

Ceiling(n, b) == (n + b - 1) \div b
Min(x, y) == IF x < y THEN x ELSE y

BatchReturned == batch.pc = "done"

\* the rows sent by write k, and those of the k-th slice of b input rows
RowsSent(k) == batch.writes[k].body.items
SliceRows(k) ==
  [j \in 1..Min(ChunkSize, Len(batch.data) - (k - 1) * ChunkSize) |->
     JSArray(<<JSInt((k - 1) * ChunkSize + j)>>)]

RECURSIVE TotalSize(_, _)
\* number of rows sent by the first k writes that ended in the given state
TotalSize(k, state) ==
  IF k = 0 THEN 0
  ELSE TotalSize(k - 1, state)
       + (IF batch.writes[k].state = state THEN Len(RowsSent(k)) ELSE 0)

\* the writes that rejected, in the order they were made
RejectedChunks ==
  SelectSeq([k \in DOMAIN batch.writes |-> k],
            LAMBDA k : batch.writes[k].state = "rejected")

\* C19: when batchInsert of n rows with chunk size b >= 1 returns, it has made
\* exactly ceil(n/b) writes, write k is a PUT of the k-th slice of b rows (the
\* last one shorter) and has settled, the call resolved with its result, with
\* succeeded + failed = n, succeeded the total size of the resolved chunks,
\* failed the total size of the rejected chunks, and errors holding one entry
\* per rejected chunk, in order, indexed by the chunk's first row
C19_BatchInsertCounts ==
  BatchReturned =>
    /\ Len(batch.writes) = Ceiling(Len(batch.data), ChunkSize)
    /\ \A k \in DOMAIN batch.writes :
         /\ batch.writes[k].method = "PUT"
         /\ RowsSent(k) = SliceRows(k)
         /\ batch.writes[k].state \in {"resolved", "rejected"}
    /\ batch.returned = Resolved(batch.result)
    /\ batch.result.succeeded + batch.result.failed = Len(batch.data)
    /\ batch.result.succeeded = TotalSize(Len(batch.writes), "resolved")
    /\ batch.result.failed = TotalSize(Len(batch.writes), "rejected")
    /\ Len(batch.result.errors) = Len(RejectedChunks)
    /\ \A m \in DOMAIN batch.result.errors :
         batch.result.errors[m].index = (RejectedChunks[m] - 1) * ChunkSize

\* three rows in chunks of two: the first write rejected, the second, of the
\* one row left, was still made and resolved
C19_Witness ==
  /\ BatchReturned
  /\ Len(batch.data) = 3
  /\ batch.batchSizeArg = Some(2)
  /\ Len(batch.writes) = 2
  /\ batch.writes[1].state = "rejected"
  /\ batch.writes[2].state = "resolved"
  /\ RowsSent(2) = <<JSArray(<<JSInt(3)>>)>>
  /\ batch.returned.value.succeeded = 1
  /\ batch.returned.value.failed = 2
  /\ batch.returned.value.errors = <<[index |-> 0, error |-> <<"Batch failed">>]>>

\* C20: the writes of a batchInsert are made one after the other in input
\* order: only the last write made can be unsettled, and only while the call
\* awaits it, so at most one write is in flight at any time
C20_WritesSequential ==
  /\ Cardinality({ k \in DOMAIN batch.writes : batch.writes[k].state = "pending" }) <= 1
  /\ \A k \in DOMAIN batch.writes :
       /\ batch.writes[k].index = (k - 1) * ChunkSize
       /\ batch.writes[k].state = "pending" =>
            /\ k = Len(batch.writes)
            /\ batch.pc = "await"
  /\ batch.pc = "await" =>
       /\ batch.writes # <<>>
       /\ batch.writes[Len(batch.writes)].state = "pending"

\* the write of the second chunk in flight, after the first one rejected
C20_Witness ==
  /\ batch.pc = "await"
  /\ Len(batch.writes) = 2
  /\ batch.writes[1].state = "rejected"
  /\ batch.writes[2].state = "pending"
  /\ batch.writes[2].index = ChunkSize

(***************************************************************************)
(* The attempt budget of request                                           *)
(***************************************************************************)
\* C28: every call that raised made at least one network attempt and at most
\* this.retryAttempts of them, and the error of lines 140-145 is raised only
\* after an attempt that failed
C28_AtLeastOneAttempt ==
  \A c \in DOMAIN calls :
    LET s == calls[c]
    IN  Raised(s) =>
          /\ 1 <= s.attempts
          /\ s.attempts <= retryAttempts
          /\ s.outcomes # <<>>

\* C29: every call of batchInsert returns, whatever the array and the chunk
\* size, 0 and negative sizes included, provided every write it makes settles
C29_BatchInsertTerminates == <>BatchReturned

(***************************************************************************)
(* SnowflakeIdGenerator and IdGeneratorFactory.snowflake                   *)
(* (utils/id-generator.ts 36-76, 95-115).  `now` is Date.now() - epoch     *)
(* counted from an instant that is a multiple of 2^32 ms after the epoch:  *)
(* the operators & and << of line 70 work on the low 32 bits of their      *)
(* operands, so ToInt32 of a timestamp is its `now`.                       *)
(***************************************************************************)
MaxTicks == 2        \* times the clock is seen to advance
MaxIds == 3          \* IDs remembered, the latest ones
ClockSteps == { 1, 1024 }
MachineIdInputs == { None, Some(0 - 1), Some(1023), Some(1024) }

MachineIdError ==
  [name |-> "Error", message |-> <<"Machine ID must be between 0 and 1023">>,
   code |-> None, status |-> None, details |-> Undefined]
ClockError ==
  [name |-> "Error", message |-> <<"Clock moved backwards. Refusing to generate ID">>,
   code |-> None, status |-> None, details |-> Undefined]

\* new SnowflakeIdGenerator(machineId), lines 42-47; the default is 1
SnowflakeIdGenerator(machineId) ==
  LET id == IF machineId = None THEN 1 ELSE machineId[1]
  IN  IF id < 0 \/ id > 1023 THEN Thrown(MachineIdError)
      ELSE Returned([sequence |-> 0, lastTimestamp |-> 0 - 1, machineId |-> id])

\* x << 22 on 32-bit integers: the low 10 bits of x, the highest as the sign
ShiftLeft22(x) ==
  IF x % 1024 >= 512 THEN ((x % 1024) - 1024) * 4194304 ELSE (x % 1024) * 4194304

\* line 70: the three fields have no bit in common, so | adds them
SnowflakeId(timestamp, machineId, sequence) ==
  ShiftLeft22(timestamp) + (machineId % 1024) * 4096 + (sequence % 4096)

\* generate, lines 49-75, reading `timestamp` from the clock and, when the
\* sequence wrapped, `later` from the loop of lines 60-62
generate(this, timestamp, later) ==
  IF timestamp < this.lastTimestamp THEN Thrown(ClockError)
  ELSE LET same == timestamp = this.lastTimestamp
           sequence == IF same THEN (this.sequence + 1) % 4096 ELSE 0
           final == IF same /\ sequence = 0 THEN later ELSE timestamp
           id == SnowflakeId(final, this.machineId, sequence)
       IN  Returned([this |-> [this EXCEPT !.sequence = sequence,
                                           !.lastTimestamp = final],
                     id |-> [text |-> ToString(id), number |-> id],
                     waited |-> same /\ sequence = 0])

NoIds == [exists |-> FALSE, now |-> 0, ticks |-> 0, ids |-> <<>>, thrown |-> None]

GeneratorInit ==
  /\ generator = NoIds
  /\ config = Undefined
  /\ authToken = <<>>
  /\ timeout = DefaultTimeout
  /\ retryAttempts = DefaultRetryAttempts
  /\ retryDelay = DefaultRetryDelay
  /\ cloud = NotCloud
  /\ ctor = Unconstructed("none", Undefined)
  /\ calls = [c \in Slots |-> NoCall]
  /\ logger = [c \in Slots |-> NoLogger]
  /\ ncalls = 0
  /\ authSent = {}
  /\ codec = NoCodecCall
  /\ batch = NoBatch
  /\ profile = NoProfile
  /\ crud = NoCrud

GeneratorUnchanged ==
  UNCHANGED <<clientVars, ctor, calls, ncalls, authSent, codec, batch, logger,
              profile, crud>>

\* the clock advances
ClockTick ==
  /\ generator.ticks < MaxTicks
  /\ \E step \in ClockSteps :
       generator' = [generator EXCEPT !.now = @ + step, !.ticks = @ + 1]
  /\ GeneratorUnchanged

\* the constructor result kept as the generator, or its exception
Created(g, made) ==
  IF made.type = "thrown" THEN [g EXCEPT !.thrown = Some(made.error)]
  ELSE [g EXCEPT !.exists = TRUE, !.this = made.value, !.thrown = None]

\* generate() on the generator g: the ID joins the IDs returned
Generated(g, step) ==
  LET made == generate(g.this, g.now, g.now + step)
  IN  IF made.type = "thrown" THEN [g EXCEPT !.thrown = Some(made.error)]
      ELSE [g EXCEPT !.this = made.value.this,
                     !.now = IF made.value.waited THEN g.now + step ELSE @,
                     !.ticks = IF made.value.waited THEN @ + 1 ELSE @,
                     !.thrown = None,
                     !.ids = IF Len(@) = MaxIds
                             THEN Append(Tail(@), made.value.id)
                             ELSE Append(@, made.value.id)]

\* the clock readings the loop of lines 60-62 can end with; the call needs
\* one only when the sequence wraps
Later(g) ==
  IF g.this.lastTimestamp = g.now /\ g.this.sequence = 4095
  THEN (IF g.ticks < MaxTicks THEN ClockSteps ELSE {})
  ELSE { 1 }

\* new SnowflakeIdGenerator(machineId), the first use of the variable
NewSnowflakeIdGenerator ==
  /\ ~generator.exists
  /\ \E machineId \in MachineIdInputs :
       generator' = Created([this |-> Undefined] @@ generator,
                            SnowflakeIdGenerator(machineId))
  /\ GeneratorUnchanged

\* generator.generate()
Generate ==
  /\ generator.exists
  /\ \E step \in Later(generator) : generator' = Generated(generator, step)
  /\ GeneratorUnchanged

\* IdGeneratorFactory.snowflake(machineId), lines 110-115: the generator is
\* made on the first call and used by every call
FactorySnowflake ==
  /\ \E machineId \in MachineIdInputs :
       LET g == IF generator.exists THEN generator
                ELSE Created([this |-> Undefined] @@ generator,
                             SnowflakeIdGenerator(machineId))
       IN  IF g.exists
           THEN \E step \in Later(g) : generator' = Generated(g, step)
           ELSE generator' = g
  /\ GeneratorUnchanged

GeneratorNext == ClockTick \/ NewSnowflakeIdGenerator \/ Generate \/ FactorySnowflake

GeneratorSpec == GeneratorInit /\ [][GeneratorNext]_vars

\* C26: the IDs returned by one generator are pairwise distinct and, read as
\* numbers, increase in the order they were generated, while the clock does
\* not go back
C26_IdsDistinctAndIncreasing ==
  \A i, j \in DOMAIN generator.ids :
    i < j => /\ generator.ids[i].text # generator.ids[j].text
             /\ generator.ids[i].number < generator.ids[j].number

(***************************************************************************)
(* The configuration object (client.ts 23-37, 216-218; cloud-client.ts     *)
(* getCloudConfig).  The constructor keeps the object it is given          *)
(* (this.config = config, line 28): `config` is that one object, which the *)
(* caller still holds.  getConfig returns a new object with its fields.    *)
(***************************************************************************)
ProfileInputs == { input \in ConfigInputs : input.retryAttempts = Some(1) }

\* what the caller writes into an object it holds
Modified(object) == [object EXCEPT !.timeout = Some(1), !.retryAttempts = Some(7)]

Observed == [got |-> Undefined, held |-> Undefined]

ProfileInit ==
  /\ \E input \in ProfileInputs : ClientStart(input)
  /\ calls = [c \in Slots |-> NoCall]
  /\ logger = [c \in Slots |-> NoLogger]
  /\ profile = Observed

ProfileUnchanged ==
  UNCHANGED <<authToken, timeout, retryAttempts, retryDelay, cloud, ctor, calls,
              ncalls, authSent, codec, batch, logger, generator, crud>>

\* getConfig(), lines 216-218: { ...this.config }
GetConfig ==
  /\ profile' = [got |-> config, held |-> config]
  /\ UNCHANGED config
  /\ ProfileUnchanged

\* the caller writes into the object that getConfig returned
ModifyReturned ==
  /\ profile.held # Undefined
  /\ profile' = [profile EXCEPT !.held = Modified(@)]
  /\ UNCHANGED config
  /\ ProfileUnchanged

\* the caller writes into the object it gave to the constructor
ModifyPassed ==
  /\ config' = Modified(config)
  /\ UNCHANGED profile
  /\ ProfileUnchanged

ProfileNext == Next \/ GetConfig \/ ModifyReturned \/ ModifyPassed

ProfileSpec == ProfileInit /\ [][ProfileNext]_vars

\* C24: the fields that requests use are those set by the constructor, and
\* every getConfig() returns the configuration as it was given to the
\* constructor, whatever the caller wrote since into that object or into an
\* object that getConfig returned
C24_ProfileNeverMutated ==
  /\ authToken = ctor.outcome.authToken
  /\ timeout = ctor.outcome.timeout
  /\ retryAttempts = ctor.outcome.retryAttempts
  /\ retryDelay = ctor.outcome.retryDelay
  /\ profile.got # Undefined => profile.got = ctor.input

(***************************************************************************)
(* Calls in flight at the same time.  Two slots: two calls of request on   *)
(* one client can be between their awaits at once.                         *)
(***************************************************************************)
TwoSlots == { 1, 2 }
ConcurrentInputs ==
  { input \in ConfigInputs :
      /\ input.username = <<117>>
      /\ input.timeout = None
      /\ input.retryAttempts = Some(2) }

\* the calls made where two are in flight: no header or skipAuth option, and
\* answers with one status of each class
PlainCall(s) ==
  /\ s.headers = <<>>
  /\ ~s.skipAuth
  /\ s.status \in { 0, 200, 404, 500 }
TwoSlotNext == Next /\ \A c \in DOMAIN calls : PlainCall(calls'[c])

TwoSlotStart(loggers) ==
  /\ \E input \in ConcurrentInputs : ClientStart(input)
  /\ calls = [c \in TwoSlots |-> NoCall]
  /\ logger \in loggers
  /\ profile = NoProfile

\* both slots are calls on one client, built without a logger
ConcurrentInit == TwoSlotStart({ [c \in TwoSlots |-> NoLogger] })
ConcurrentSpec == ConcurrentInit /\ [][TwoSlotNext]_vars

\* two clients built from one configuration: the calls of slot 1 are made on
\* the one built without a logger, those of slot 2 on the one built with it
LoggerInit == TwoSlotStart({ l \in [TwoSlots -> Loggers] : l[1] = NoLogger })
LoggerSpec == LoggerInit /\ [][TwoSlotNext]_vars

\* the same call, answered so far with the same responses
SameResponses(s, t) ==
  /\ s.op = t.op
  /\ s.skipAuth = t.skipAuth
  /\ s.headers = t.headers
  /\ s.outcomes = t.outcomes
  /\ s.responseText = t.responseText

\* what the caller and the network see of a call
SameBehaviour(s, t) ==
  /\ s.pc = t.pc
  /\ s.attempts = t.attempts
  /\ s.delays = t.delays
  /\ s.result = t.result
  /\ s.returned = t.returned

WithinBudget(s) == s.attempts <= (IF retryAttempts > 0 THEN retryAttempts ELSE 0)

\* C23: of two calls on one client, in any interleaving, a call that has
\* ended and a call answered with the same responses made the same attempts,
\* waited the same delays and ended with the same result or error; and every
\* call stays within this.retryAttempts attempts
C23_CallsIndependent ==
  \A c, d \in DOMAIN calls :
    /\ WithinBudget(calls[c])
    /\ (calls[c].pc = "done" /\ SameResponses(calls[c], calls[d]))
         => SameBehaviour(calls[c], calls[d])

\* the first call waits for its second attempt while the second call, begun
\* after it, has already ended with a 404
C23_Witness ==
  /\ DOMAIN calls = TwoSlots
  /\ calls[1].pc = "delay"
  /\ calls[1].outcomes = <<Outcome("network", 0)>>
  /\ calls[2].pc = "done"
  /\ calls[2].outcomes = <<Outcome("response", 404)>>
  /\ calls[2].attempts = 1
  /\ Raised(calls[2])

\* C25: a call on a client with a logger, whether its methods return or
\* raise, behaves as the call on the client without logger that is answered
\* with the same responses: same attempts, same delays, same result or error
C25_LoggerObservationalOnly ==
  \A c, d \in DOMAIN calls :
    (calls[c].pc = "done" /\ SameResponses(calls[c], calls[d]))
      => SameBehaviour(calls[c], calls[d])

(***************************************************************************)
(* CRUDOperations.insert, update, count, exists, executeSql, getSchema and *)
(* upsert (cloud-client.ts 396-408, 449-470, 510-603) on a client whose    *)
(* calls the remote service answers or fails.  The container `users` has   *)
(* the columns id, name; the rows of the calls all have id 1.              *)
(***************************************************************************)
MaxOps == 2          \* calls of insert, upsert and getSchema
Procs == { 1, 2 }    \* callers that can be between their awaits at once

Users == <<"u","s","e","r","s">>
Id == <<"i","d">>
Name == <<"n","a","m","e">>
John == JSString(<<"J","o","h","n">>)
ContainerColumns == << Id, Name >>
UsersSchema ==
  JSArray(<< [name |-> Id, type |-> "INTEGER"], [name |-> Name, type |-> "STRING"] >>)

IdFirst == JSObject(<< <<Id, JSInt(1)>>, <<Name, John>> >>)     \* {id: 1, name: 'John'}
NameFirst == JSObject(<< <<Name, John>>, <<Id, JSInt(1)>> >>)   \* {name: 'John', id: 1}
AsArray == JSArray(<< JSInt(1), John >>)                        \* [1, 'John']
\* options.data of insert: one row, or an array of rows
InsertDataInputs == { NameFirst, JSArray(<<NameFirst, AsArray>>) }
UpsertDataInputs == { IdFirst, NameFirst }
UniqueColumnsInputs == { <<>>, <<Id>> }

\* insert, lines 396-408, up to its await: the call of client.request.  The
\* options have no schema: a `schema` property given by the caller is not read.
insert(options) ==
  LET rows == IF options.data.type = "array" THEN options.data.items ELSE <<options.data>>
      transformedRows == [k \in DOMAIN rows |-> transformRowToArray(rows[k], NoSchema).value]
  IN  [via |-> "request", path |-> <<"/","c","o","n","t","a","i","n","e","r","s","/">> \o options.containerName \o <<"/","r","o","w","s">>,
       method |-> IF options.updateIfExists THEN "PUT" ELSE "POST",
       body |-> JSArray(transformedRows)]

\* executeSql, lines 521-539, up to its await: the call of client.post
executeSql(stmt, bindings) ==
  [via |-> "post", path |-> <<"/","s","q","l","/","d","m","l","/","q","u","e","r","y">>, method |-> "POST",
   body |-> JSArray(<< [type |-> "sql-select", stmt |-> stmt, bindings |-> bindings] >>)]

\* update, lines 449-470, up to its await
update(options) ==
  IF options.where = <<>>
  THEN insert([containerName |-> options.containerName, data |-> options.data,
               updateIfExists |-> TRUE])
  ELSE LET columns == OwnProperties(options.data.props)
           setClause == Join([i \in DOMAIN columns |-> columns[i][1] \o <<" ","="," ","?">>], <<","," ">>)
           values == [i \in DOMAIN columns |-> columns[i][2]]
       IN  executeSql(<<"U","P","D","A","T","E"," ">> \o options.containerName \o <<" ","S","E","T"," ">> \o setClause
                        \o <<" ","W","H","E","R","E"," ">> \o options.where,
                      values \o options.bindings)

\* count, lines 510-516, up to its await
count(containerName, where, bindings) ==
  executeSql(<<"S","E","L","E","C","T"," ","C","O","U","N","T","(","*",")"," ","F","R","O","M"," ">> \o containerName
               \o (IF where # <<>> THEN <<" ","W","H","E","R","E"," ">> \o where ELSE <<>>),
             bindings)

\* upsert, lines 584-585: the WHERE clause and its bindings
whereConditions(uniqueColumns) ==
  Join([i \in DOMAIN uniqueColumns |-> uniqueColumns[i] \o <<" ","="," ","?">>], <<" ","A","N","D"," ">>)
whereBindings(data, uniqueColumns) ==
  [i \in DOMAIN uniqueColumns |-> Get(data.props, uniqueColumns[i])]

\* the update of line 592 made although no row exists
upsertWrite_AlwaysUpdate(s, exists) ==
  update([containerName |-> Users, data |-> s.data,
          where |-> whereConditions(s.uniqueColumns),
          bindings |-> whereBindings(s.data, s.uniqueColumns)])

\* upsert, lines 589-602, once exists() has returned
upsertWrite(s, exists) ==
  IF exists
  THEN update([containerName |-> Users, data |-> s.data,
               where |-> whereConditions(s.uniqueColumns),
               bindings |-> whereBindings(s.data, s.uniqueColumns)])
  ELSE insert([containerName |-> Users, data |-> s.data, updateIfExists |-> FALSE])

(***************************************************************************)
(* The calls of insert, upsert and getSchema by two callers.  crud.store   *)
(* is the number of rows of `users` (all of id 1), crud.log the calls made *)
(* on the client in the order they were made, each with the method the     *)
(* caller called (op), the method of CRUDOperations that made the call     *)
(* (by) and, for insert, the options it was given.                         *)
(***************************************************************************)
StoreInputs == { 0, 1 }
SchemaInputs == { NoSchema, UsersSchema }

IdleOp ==
  [op |-> "none", pc |-> "idle", data |-> Undefined, schema |-> NoSchema,
   uniqueColumns |-> <<>>, count |-> None, writes |-> <<>>, outcome |-> Undefined]

Logged(p, op, by, options, request) ==
  [proc |-> p, op |-> op, by |-> by, options |-> options, request |-> request]

\* getContainerInfo(containerName) of the client (client.ts 194-196), called
\* by getSchema (line 566)
getContainerInfo(containerName) ==
  [via |-> "getContainerInfo", path |-> <<"/","c","o","n","t","a","i","n","e","r","s","/">> \o containerName \o <<"/","i","n","f","o">>,
   method |-> "GET", body |-> Undefined]

CrudStart(stores) ==
  /\ crud \in { [pc |-> "open", initial |-> n, store |-> n, log |-> <<>>, nops |-> 0,
                 procs |-> [p \in Procs |-> IdleOp]] : n \in stores }
  /\ codec = NoCodecCall
  /\ batch = NoBatch
  /\ config = Undefined
  /\ authToken = <<>>
  /\ timeout = DefaultTimeout
  /\ retryAttempts = DefaultRetryAttempts
  /\ retryDelay = DefaultRetryDelay
  /\ cloud = NotCloud
  /\ ctor = Unconstructed("none", Undefined)
  /\ calls = [c \in Slots |-> NoCall]
  /\ logger = [c \in Slots |-> NoLogger]
  /\ profile = NoProfile
  /\ generator = NoGenerator
  /\ ncalls = 0
  /\ authSent = {}

CrudInit == CrudStart(StoreInputs)

CrudUnchanged ==
  UNCHANGED <<clientVars, ctor, calls, ncalls, authSent, codec, batch, logger,
              profile, generator>>

Free(p) == crud.procs[p].pc \in { "idle", "done" } /\ crud.nops < MaxOps

\* caller p has made `request` and awaits it
Called(p, op, by, started, options, request) ==
  [crud EXCEPT
     !.nops = IF by = op \/ by = "count" THEN @ + 1 ELSE @,
     !.log = Append(@, Logged(p, op, by, options, request)),
     !.procs[p] = [started EXCEPT !.writes = IF by = "count" \/ by = "getSchema"
                                             THEN @ ELSE Append(@, request)]]

\* caller p calls insert(options) and reaches its await (line 403)
Insert(p) ==
  /\ Free(p)
  /\ \E data \in InsertDataInputs, schema \in SchemaInputs, updateIfExists \in BOOLEAN :
       crud' = Called(p, "insert", "insert",
                      [IdleOp EXCEPT !.op = "insert", !.pc = "write",
                                     !.data = data, !.schema = schema],
                      [containerName |-> Users, data |-> data, schema |-> schema,
                       updateIfExists |-> updateIfExists],
                      insert([containerName |-> Users, data |-> data,
                              updateIfExists |-> updateIfExists]))
  /\ CrudUnchanged

\* caller p calls upsert(containerName, data, uniqueColumns) and reaches the
\* await of exists (line 587)
Upsert(p) ==
  /\ Free(p)
  /\ \E data \in UpsertDataInputs, uniqueColumns \in UniqueColumnsInputs :
       crud' = Called(p, "upsert", "count",
                      [IdleOp EXCEPT !.op = "upsert", !.pc = "count", !.data = data,
                                     !.uniqueColumns = uniqueColumns],
                      Undefined,
                      count(Users, whereConditions(uniqueColumns),
                            whereBindings(data, uniqueColumns)))
  /\ CrudUnchanged

\* caller p calls getSchema(containerName) (lines 565-567)
GetSchema(p) ==
  /\ Free(p)
  /\ crud' = Called(p, "getSchema", "getSchema",
                    [IdleOp EXCEPT !.op = "getSchema", !.pc = "info"],
                    Undefined, getContainerInfo(Users))
  /\ CrudUnchanged

\* the service answers the COUNT(*) of caller p: count returns it (line 515),
\* exists compares it with 0 (line 559) and upsert makes its write
CountAnswer(p) ==
  /\ crud.procs[p].pc = "count"
  /\ crud' = Called(p, "upsert", IF crud.store > 0 THEN "update" ELSE "insert",
                    [crud.procs[p] EXCEPT !.pc = "write", !.count = Some(crud.store)],
                    Undefined, upsertWrite(crud.procs[p], crud.store > 0))
  /\ CrudUnchanged

\* the rows a write adds to a container of n rows of id 1: a POST appends
\* its rows, a PUT or an UPDATE keeps the rows that are there
Stored(n, request) ==
  IF request.via = "request" /\ request.method = "POST"
  THEN n + Len(request.body.items)
  ELSE IF request.via = "request" /\ n = 0 THEN 1 ELSE n

\* the service answers the write of caller p, which returns
WriteAnswer(p) ==
  /\ crud.procs[p].pc = "write"
  /\ LET s == crud.procs[p]
     IN  crud' = [crud EXCEPT
                    !.store = Stored(@, s.writes[Len(s.writes)]),
                    !.procs[p] = [@ EXCEPT !.pc = "done", !.outcome = Resolved(Undefined)]]
  /\ CrudUnchanged

\* the service answers the getContainerInfo of caller p
InfoAnswer(p) ==
  /\ crud.procs[p].pc = "info"
  /\ crud' = [crud EXCEPT !.procs[p] = [@ EXCEPT !.pc = "done",
                                                 !.outcome = Resolved(UsersSchema)]]
  /\ CrudUnchanged

\* the call caller p awaits raises: the method raises it too
CallFails(p) ==
  /\ crud.procs[p].pc \in { "count", "write", "info" }
  /\ crud' = [crud EXCEPT !.procs[p] = [@ EXCEPT !.pc = "done",
                                                 !.outcome = Rejected(BatchFailed)]]
  /\ CrudUnchanged

CrudNext ==
  \E p \in Procs :
    \/ Insert(p)
    \/ Upsert(p)
    \/ GetSchema(p)
    \/ CountAnswer(p)
    \/ WriteAnswer(p)
    \/ InfoAnswer(p)
    \/ CallFails(p)

CrudSpec == CrudInit /\ [][CrudNext]_vars

(***************************************************************************)
(* Properties of insert and upsert                                         *)
(***************************************************************************)
RowsPath == <<"/","c","o","n","t","a","i","n","e","r","s","/">> \o Users \o <<"/","r","o","w","s">>
SqlPath == <<"/","s","q","l","/","d","m","l","/","q","u","e","r","y">>

\* the rows of options.data, and a row laid out in the column order id, name
RowsOf(data) == IF data.type = "array" THEN data.items ELSE <<data>>
InColumnOrder(row) ==
  IF row.type = "array" THEN row
  ELSE JSArray([i \in DOMAIN ContainerColumns |-> Get(row.props, ContainerColumns[i])])

\* the calls insert() itself made on the client
InsertCalls == SelectSeq(crud.log, LAMBDA e : e.op = "insert")
InfoCallsOfInsert ==
  SelectSeq(crud.log, LAMBDA e : e.by = "insert" /\ e.request.via = "getContainerInfo")

\* C21: an insert given the schema [id, name] sends every keyed row as the
\* array of its values in the order id, name, whatever the key order of the
\* row, and sends the rows given as arrays unchanged.
C21_InsertInColumnOrder ==
  crud.pc = "open" =>
    \A i \in DOMAIN crud.log :
      LET e == crud.log[i]
      IN  (e.op = "insert" /\ e.options.schema = UsersSchema)
            => e.request.body.items =
                 [k \in DOMAIN RowsOf(e.options.data) |->
                    InColumnOrder(RowsOf(e.options.data)[k])]

\* C22: once insert has been called without a schema, however many times,
\* insert has called getContainerInfo exactly once.
C22_SchemaFetchedOnce ==
  crud.pc = "open" =>
    ((\E i \in DOMAIN crud.log :
        crud.log[i].op = "insert" /\ crud.log[i].options.schema = NoSchema)
       => Len(InfoCallsOfInsert) = 1)

\* what the writes of upsert are
IsRowWrite(request, method, data) ==
  /\ request.via = "request"
  /\ request.method = method
  /\ request.path = RowsPath
  /\ request.body = JSArray(<<JSArray(ObjectValues(data.props))>>)

EndsWith(text, suffix) ==
  Len(text) >= Len(suffix)
    /\ SubSeq(text, Len(text) - Len(suffix) + 1, Len(text)) = suffix

\* "c1 = ? AND c2 = ?" for the unique columns c1, c2
RECURSIVE Tests(_)
Tests(columns) ==
  IF columns = <<>> THEN <<>>
  ELSE Head(columns) \o <<" ","="," ","?">>
         \o (IF Len(columns) > 1 THEN <<" ","A","N","D"," ">> ELSE <<>>)
         \o Tests(Tail(columns))

IsSqlUpdate(request, data, uniqueColumns) ==
  /\ request.via = "post"
  /\ request.path = SqlPath
  /\ Len(request.body.items) = 1
  /\ LET query == request.body.items[1]
     IN  /\ StartsWith(query.stmt, <<"U","P","D","A","T","E"," ">> \o Users \o <<" ","S","E","T"," ">>)
         /\ EndsWith(query.stmt, <<" ","W","H","E","R","E"," ">> \o Tests(uniqueColumns))
         /\ query.bindings =
              ObjectValues(data.props)
                \o [i \in DOMAIN uniqueColumns |-> Get(data.props, uniqueColumns[i])]

\* the upserts whose count has been returned
Counted(p) == crud.procs[p].op = "upsert" /\ crud.procs[p].count # None

\* C27 as stated: an upsert whose count has been returned has made exactly
\* one write: a POST of the row to the rows endpoint when the count is 0, an
\* SQL UPDATE with the unique columns in its WHERE clause and the row's
\* values followed by the unique values as bindings when it is greater.
C27_UpsertOneWrite ==
  crud.pc = "open" =>
    \A p \in Procs :
      LET s == crud.procs[p]
      IN  Counted(p) =>
            /\ Len(s.writes) = 1
            /\ IF s.count[1] = 0
               THEN IsRowWrite(s.writes[1], "POST", s.data)
               ELSE IsSqlUpdate(s.writes[1], s.data, s.uniqueColumns)

\* C27 amended: as above when uniqueColumns is not empty; with no unique
\* column and a count greater than 0 the one write is a PUT of the row to
\* the rows endpoint.
C27_UpsertOneWriteByUniqueColumns ==
  crud.pc = "open" =>
    \A p \in Procs :
      LET s == crud.procs[p]
      IN  Counted(p) =>
            /\ Len(s.writes) = 1
            /\ IF s.count[1] = 0
               THEN IsRowWrite(s.writes[1], "POST", s.data)
               ELSE IF s.uniqueColumns # <<>>
                    THEN IsSqlUpdate(s.writes[1], s.data, s.uniqueColumns)
                    ELSE IsRowWrite(s.writes[1], "PUT", s.data)

\* an upsert on the column id found a row, made its UPDATE and returned; a
\* second one found none and made its POST
C27_Witness ==
  /\ crud.pc = "open"
  /\ \E p, q \in Procs :
       /\ Counted(p) /\ crud.procs[p].count[1] > 0
       /\ crud.procs[p].uniqueColumns = <<Id>>
       /\ crud.procs[p].outcome = Resolved(Undefined)
       /\ Counted(q) /\ crud.procs[q].count[1] = 0
       /\ Len(crud.procs[q].writes) = 1

\* only upsert has been called, on a container that had no row
OnlyUpserts ==
  /\ crud.initial = 0
  /\ \A i \in DOMAIN crud.log : crud.log[i].op = "upsert"

IsRowInsert(request) ==
  request.via = "request" /\ request.method = "POST" /\ request.path = RowsPath

\* C30: of two upserts with the same unique columns that run at once on a
\* container without a row, none of whose calls failed, at most one makes a
\* row insert, and no row insert of one is made between the count and the
\* write of the other.
C30_AtMostOneInsert ==
  (crud.pc = "open" /\ OnlyUpserts) =>
    /\ \A p, q \in Procs :
         (/\ p # q
          /\ Counted(p) /\ Counted(q)
          /\ crud.procs[p].uniqueColumns = crud.procs[q].uniqueColumns
          /\ crud.procs[p].outcome.type # "rejected"
          /\ crud.procs[q].outcome.type # "rejected")
           => ~(IsRowInsert(crud.procs[p].writes[1]) /\ IsRowInsert(crud.procs[q].writes[1]))
    /\ \A i, j, k \in DOMAIN crud.log :
         (/\ i < j /\ j < k
          /\ crud.log[i].proc = crud.log[k].proc
          /\ crud.log[i].by = "count" /\ crud.log[k].by # "count"
          /\ \A m \in (i + 1)..(k - 1) : crud.log[m].proc # crud.log[i].proc
          /\ crud.log[j].proc # crud.log[i].proc)
           => ~IsRowInsert(crud.log[j].request)
====
